---- MODULE Spec2Model ----
(***************************************************************************)
(* Memora: the spaced-repetition / memory-health engine                    *)
(* (backend/app/core/intelligence/spaced_repetition.py) and the validation *)
(* of a SearchQuery (backend/app/models/search.py,                         *)
(* backend/app/core/retrieval/search.py).                                  *)
(*                                                                         *)
(* Numbers.  Timestamps are integer ticks, TicksPerDay ticks to a day;     *)
(* timedelta.days is the floor division by TicksPerDay.  ease_factor and   *)
(* importance are held in hundredths (2.5 is 250, 1.3 is 130).  The        *)
(* retention score exp(-t/S) is never materialised: every use the model    *)
(* makes of it is a comparison with a threshold, done on t/S against the   *)
(* logarithm of the threshold.                                             *)
(***************************************************************************)
EXTENDS Integers, Sequences, FiniteSets, TLC

VARIABLES
    memory_health,    \* SpacedRepetitionService._memory_health: the dict, in insertion order
    review_history,   \* SpacedRepetitionService._review_history
    now,              \* datetime.utcnow(), in ticks
    tasks,            \* record_review coroutines in flight (SpecConc)
    search_service,   \* SearchService: _use_reranker, _reranker (SpecQuery)
    query,            \* the last search request and what became of it (SpecQuery)
    call,             \* the search() call in flight, then its response (SpecSearch)
    response,         \* what the last route or embedding call answered (SpecRoutes, SpecEmbed)
    hash_seed,        \* the salt of str hashes in the running process (SpecEmbed)
    embedding_service, \* EmbeddingService: _use_gemini (SpecEmbed)
    indexed,          \* the text last ingested and the sparse vector stored for it (SpecEmbed)
    focus_mode_service \* FocusModeService: _sessions, _session_history (SpecFocus)

ioVars == <<call, response, hash_seed, embedding_service, indexed, focus_mode_service>>
searchVars == <<search_service, query, ioVars>>
vars == <<memory_health, review_history, now, tasks, search_service, query,
          call, response, hash_seed, embedding_service, indexed,
          focus_mode_service>>

----------------------------------------------------------------------------
(* Bounds of the model *)

MaxTime == 3          \* the clock stops here
TicksPerDay == 1      \* ticks of the clock to a day
MaxReviews == 3       \* reviews recorded in a run of the schedule (SpecSchedule)
MaxScheduleTime == 2  \* the clock of a run of the schedule stops here (SpecSchedule)
MaxQueueReviews == 1  \* reviews recorded in a run of the whole service (Spec)
MaxAccess == 1        \* passive accesses per memory
NumTasks == 2         \* record_review coroutines in flight (SpecConc)
MaxAccessTime == 4    \* the clock of a run of passive accesses stops here (SpecAccess)
MaxAccessReviews == 2 \* reviews recorded in a run of passive accesses (SpecAccess)
MaxQueueTime == 9     \* the clock of a run of the due queue stops here (SpecQueue)
MaxFocusTime == 1     \* the clock of a run of focus sessions stops here (SpecFocus)
MaxFocusReviews == 2  \* reviews recorded in a run of focus sessions (SpecFocus)
MaxSessionHistory == 2 \* records in the session history (SpecFocus)
MaxSessions == 1      \* focus sessions created (SpecFocus)

MemoryIds == {"m1", "m2"}
TaskIds == 1..NumTasks

----------------------------------------------------------------------------
(* Program constants *)

FORGOT == 1
HARD == 2
GOOD == 3
EASY == 4
ReviewDifficulty == {FORGOT, HARD, GOOD, EASY}

MemoryStrength == {"fresh", "strong", "moderate", "weak", "fading"}

DefaultEase == 250
MinEase == 130
DefaultImportance == 50
ImportanceValues == {DefaultImportance, 90}

\* -ln(0.9), -ln(0.7), -ln(0.5), -ln(0.3), in units of 1/100000
LnFresh == 10536
LnStrong == 35667
LnModerate == 69315
LnWeak == 120397

----------------------------------------------------------------------------
(* MemoryHealth *)

\* MemoryHealth.__init__ as initialize_memory calls it: every field but
\* memory_id and importance takes its default.  last_accessed is left out:
\* record_access writes it and nothing, to_dict included, reads it.
NewHealth(memory_id, importance, t) ==
    [memory_id |-> memory_id,
     ease_factor |-> DefaultEase,
     interval_days |-> 1,
     repetitions |-> 0,
     last_review |-> t,
     next_review |-> t + TicksPerDay,
     strength |-> "fresh",
     importance |-> importance,
     access_count |-> 0]

\* (datetime.utcnow() - self.last_review).days
DaysSinceReview(h, t) == (t - h.last_review) \div TicksPerDay

\* calculate_retention_score() > threshold, the threshold given as
\* -ln(threshold) in units of 1/100000.  stability is interval_days *
\* (ease_factor / 2.5);
\* stability <= 0 returns 0.5; otherwise exp(-days / stability) clamped to
\* [0, 1], which exceeds the threshold iff days / stability < -ln(threshold).
RetentionAbove(h, t, lnThreshold) ==
    IF h.interval_days * h.ease_factor <= 0
    THEN lnThreshold > LnModerate
    ELSE DaysSinceReview(h, t) * DefaultEase * 100000
             < lnThreshold * h.interval_days * h.ease_factor

\* the chain of comparisons of update_strength
Classify(h, t) ==
    IF RetentionAbove(h, t, LnFresh) THEN "fresh"
    ELSE IF RetentionAbove(h, t, LnStrong) THEN "strong"
    ELSE IF RetentionAbove(h, t, LnModerate) THEN "moderate"
    ELSE IF RetentionAbove(h, t, LnWeak) THEN "weak"
    ELSE "fading"

update_strength(h, t) == [h EXCEPT !.strength = Classify(h, t)]

----------------------------------------------------------------------------
(* The _memory_health dict: a sequence of MemoryHealth, one per key, in the  *)
(* order the keys were first inserted.                                      *)

Tracked(id) == \E i \in DOMAIN memory_health : memory_health[i].memory_id = id

IndexOf(id) == CHOOSE i \in DOMAIN memory_health : memory_health[i].memory_id = id

\* self._memory_health.get(memory_id), for a tracked id
Health(id) == memory_health[IndexOf(id)]

TrackedIds == {memory_health[i].memory_id : i \in DOMAIN memory_health}

\* self._memory_health[memory_id] = health: a new key goes last, an
\* existing key keeps its place and takes the new object
DictSet(d, h) ==
    IF \E i \in DOMAIN d : d[i].memory_id = h.memory_id
    THEN [i \in DOMAIN d |-> IF d[i].memory_id = h.memory_id THEN h ELSE d[i]]
    ELSE Append(d, h)

----------------------------------------------------------------------------
(* record_review: the SM-2 update *)

Max(a, b) == IF a >= b THEN a ELSE b
Min(a, b) == IF a <= b THEN a ELSE b

\* round(interval_days * ease_factor), n = interval_days * ease_factor in
\* hundredths.  Python rounds the float product half to even.  The float
\* held for 2.5 is exact, so a tie is a tie and goes to the even side; any
\* other ease_factor carries the error of the additions that produced it,
\* and a product that is a tie in decimals lands on either side.
RoundProduct(n, ease) ==
    LET q == n \div 100
        r == n % 100
    IN  IF r < 50 THEN {q}
        ELSE IF r > 50 THEN {q + 1}
        ELSE IF ease = DefaultEase THEN {IF q % 2 = 0 THEN q ELSE q + 1}
        ELSE {q, q + 1}

\* Sm2Interval with the interval left out of the product of line 163
Sm2IntervalEaseOnly(h, quality) ==
    IF quality >= 3
    THEN IF h.repetitions = 0 THEN {1}
         ELSE IF h.repetitions = 1 THEN {6}
         ELSE RoundProduct(h.ease_factor, h.ease_factor)
    ELSE {1}

\* Sm2Interval with the product of line 163 taken on the ease_factor that
\* lines 173-176 compute afterwards
Sm2IntervalNewEase(h, quality) ==
    LET ease == Max(MinEase, h.ease_factor + 10
                                 - (5 - quality) * (8 + (5 - quality) * 2))
    IN  IF quality >= 3
        THEN IF h.repetitions = 0 THEN {1}
             ELSE IF h.repetitions = 1 THEN {6}
             ELSE RoundProduct(h.interval_days * ease, ease)
        ELSE {1}

\* lines 156-169: the values interval_days may take
Sm2Interval(h, quality) ==
    IF quality >= 3
    THEN IF h.repetitions = 0 THEN {1}
         ELSE IF h.repetitions = 1 THEN {6}
         ELSE RoundProduct(h.interval_days * h.ease_factor, h.ease_factor)
    ELSE {1}

\* Sm2Repetitions with the reset of line 168 left out
Sm2RepetitionsKept(h, quality) ==
    IF quality >= 3 THEN h.repetitions + 1 ELSE h.repetitions

\* lines 165, 168
Sm2Repetitions(h, quality) ==
    IF quality >= 3 THEN h.repetitions + 1 ELSE 0

\* Sm2Ease on a quality scale that ends at 4, where EASY earns the + 0.1
Sm2EaseScaleOfFour(ease, quality) ==
    Max(MinEase, ease + 10 - (4 - quality) * (8 + (4 - quality) * 2))

\* Sm2Ease without the floor of line 174
Sm2EaseNoFloor(ease, quality) ==
    ease + 10 - (5 - quality) * (8 + (5 - quality) * 2)

\* Sm2Ease with the penalty of line 175 written without its parentheses:
\* EF + 0.1 - (5-q) * 0.08 + (5-q) * 0.02
Sm2EaseLoosePenalty(ease, quality) ==
    Max(MinEase, ease + 10 - (5 - quality) * 8 + (5 - quality) * 2)

\* lines 173-176: max(1.3, EF + 0.1 - (5-q) * (0.08 + (5-q) * 0.02))
Sm2Ease(ease, quality) ==
    Max(MinEase, ease + 10 - (5 - quality) * (8 + (5 - quality) * 2))

\* lines 155-183 on the object `health`, interval being the value
\* round() gave
Reviewed(h, quality, t, interval) ==
    update_strength(
        [h EXCEPT !.interval_days = interval,
                  !.repetitions = Sm2Repetitions(h, quality),
                  !.ease_factor = Sm2Ease(h.ease_factor, quality),
                  !.last_review = t,
                  !.next_review = t + interval * TicksPerDay],
        t)

\* ReviewEvent holding the repetitions where line 152 holds the interval
ReviewEventRepetitions(h, quality, t) ==
    [memory_id |-> h.memory_id,
     difficulty |-> quality,
     timestamp |-> t,
     previous_interval |-> h.repetitions]

\* lines 148-153
ReviewEvent(h, quality, t) ==
    [memory_id |-> h.memory_id,
     difficulty |-> quality,
     timestamp |-> t,
     previous_interval |-> h.interval_days]

\* lines 140-142: the object the review works on
ReviewTarget(id) ==
    IF Tracked(id) THEN Health(id) ELSE NewHealth(id, DefaultImportance, now)

----------------------------------------------------------------------------
(* The service, one call at a time.  No await of these handlers suspends  *)
(* as the code stands (initialize_memory holds no await, and               *)
(* qdrant_service.get_memory wraps a synchronous client call), so on one   *)
(* event loop each handler runs to its return before the next starts.      *)

Idle == \A t \in TaskIds : tasks[t].pc = "idle"

\* initialize_memory(memory_id, importance)
initialize_memory(id, importance) ==
    /\ memory_health' = DictSet(memory_health, NewHealth(id, importance, now))
    /\ UNCHANGED <<review_history, now, tasks, searchVars>>

\* lines 140-186: what record_review writes
Recorded(id, difficulty) ==
    LET h == ReviewTarget(id)
    IN  /\ review_history' =
               Append(review_history, ReviewEvent(h, difficulty, now))
        /\ \E interval \in Sm2Interval(h, difficulty) :
               memory_health' =
                   DictSet(memory_health, Reviewed(h, difficulty, now, interval))

\* record_review(memory_id, difficulty)
record_review(id, difficulty) ==
    /\ Recorded(id, difficulty)
    /\ UNCHANGED <<now, tasks, searchVars>>

\* Accessed without line 203
AccessedKeepsNextReview(h, t) ==
    LET h1 == [h EXCEPT !.access_count = h.access_count + 1]
    IN  IF h.strength \in {"weak", "fading"}
        THEN [h1 EXCEPT !.interval_days = Max(1, h.interval_days - 1)]
        ELSE h1

\* Accessed with the days of line 203 taken before line 202 shortens them
AccessedOldInterval(h, t) ==
    LET h1 == [h EXCEPT !.access_count = h.access_count + 1]
    IN  IF h.strength \in {"weak", "fading"}
        THEN [h1 EXCEPT !.interval_days = Max(1, h.interval_days - 1),
                        !.next_review = t + h.interval_days * TicksPerDay]
        ELSE h1

\* lines 196-203 on the object `health`
Accessed(h, t) ==
    LET h1 == [h EXCEPT !.access_count = h.access_count + 1]
    IN  IF h.strength \in {"weak", "fading"}
        THEN [h1 EXCEPT !.interval_days = Max(1, h.interval_days - 1),
                        !.next_review =
                            t + Max(1, h.interval_days - 1) * TicksPerDay]
        ELSE h1

\* record_access(memory_id)
record_access(id) ==
    /\ memory_health' = DictSet(memory_health, Accessed(ReviewTarget(id), now))
    /\ UNCHANGED <<review_history, now, tasks, searchVars>>

\* the clock
Tick ==
    /\ now < MaxTime
    /\ now' = now + 1
    /\ UNCHANGED <<memory_health, review_history, tasks, searchVars>>

----------------------------------------------------------------------------
(* Reading the store *)

\* exp(-k) for whole k, in units of 1/10000
ExpNegWhole(k) ==
    IF k = 0 THEN 10000
    ELSE IF k > 9 THEN 0
    ELSE <<3679, 1353, 498, 183, 67, 25, 9, 3, 1>>[k]

\* exp(-f/10000) for 0 <= f < 10000, in units of 1/10000 (Taylor, 8 terms)
ExpNegFrac(f) ==
    LET step(k, v) == 10000 - (f * v) \div (k * 10000)
    IN  step(1, step(2, step(3, step(4, step(5, step(6, step(7, step(8, 10000))))))))

\* calculate_retention_score(), in units of 1/10000, to about three places
calculate_retention_score(h, t) ==
    IF h.interval_days * h.ease_factor <= 0 THEN 5000
    ELSE LET x == (DaysSinceReview(h, t) * DefaultEase * 10000)
                      \div (h.interval_days * h.ease_factor)
         IN  (ExpNegWhole(x \div 10000) * ExpNegFrac(x % 10000)) \div 10000

\* to_dict(): the stored fields and the retention score computed at the call
to_dict(h, t) ==
    [memory_id |-> h.memory_id,
     ease_factor |-> h.ease_factor,
     interval_days |-> h.interval_days,
     repetitions |-> h.repetitions,
     last_review |-> h.last_review,
     next_review |-> h.next_review,
     strength |-> h.strength,
     importance |-> h.importance,
     access_count |-> h.access_count,
     retention_score |-> calculate_retention_score(h, t)]

\* lines 217-218
\* IsDue with < where line 217 has <=
IsDueStrictly(h, t) == h.next_review < t
IsDue(h, t) == h.next_review <= t
IsOverdue(h, t) == h.next_review < t - TicksPerDay

\* Selected with the flag deciding whether the overdue items are taken
SelectedByFlag(h, t, include_overdue) ==
    IsDue(h, t) /\ (include_overdue \/ ~IsOverdue(h, t))

\* line 220
Selected(h, t, include_overdue) ==
    IsDue(h, t) \/ (include_overdue /\ IsOverdue(h, t))

\* line 227: (now - health.next_review).days
OverdueDays(h, t) == (t - h.next_review) \div TicksPerDay

\* lines 228-232, times 700000:
\* importance * 0.4 + min(overdue_days / 7, 1) * 0.4 + (1 - retention) * 0.2
PriorityScore(h, t) ==
    2800 * h.importance
    + 40000 * Min(OverdueDays(h, t), 7)
    + 14 * (10000 - calculate_retention_score(h, t))

\* lines 234-242
DueEntry(h, t) ==
    [memory_id |-> h.memory_id,
     health |-> to_dict(h, t),
     days_overdue |-> Max(0, OverdueDays(h, t)),
     priority_score |-> PriorityScore(h, t)]

\* InsertByPriority as a sort that is not stable: an entry goes before the
\* entries of equal priority that came before it
RECURSIVE InsertByPriorityTiesFirst(_, _)
InsertByPriorityTiesFirst(sorted, e) ==
    IF sorted = <<>> THEN <<e>>
    ELSE IF Head(sorted).priority_score > e.priority_score
         THEN <<Head(sorted)>> \o InsertByPriorityTiesFirst(Tail(sorted), e)
         ELSE <<e>> \o sorted

\* list.sort(key=priority_score, reverse=True): stable, so an entry goes
\* after every entry of greater or equal priority that came before it
RECURSIVE InsertByPriority(_, _)
InsertByPriority(sorted, e) ==
    IF sorted = <<>> THEN <<e>>
    ELSE IF Head(sorted).priority_score >= e.priority_score
         THEN <<Head(sorted)>> \o InsertByPriority(Tail(sorted), e)
         ELSE <<e>> \o sorted

RECURSIVE SortByPriority(_)
SortByPriority(entries) ==
    IF entries = <<>> THEN <<>>
    ELSE InsertByPriority(SortByPriority(SubSeq(entries, 1, Len(entries) - 1)),
                          entries[Len(entries)])

\* lines 216-242: the loop over the dict, in its order.  found holds the
\* ids for which qdrant_service.get_memory returns a memory: the vector
\* store belongs to another component, and what it holds is an input of
\* each call that reads it.
RECURSIVE DueMemories(_, _, _, _)
DueMemories(d, t, include_overdue, found) ==
    IF d = <<>> THEN <<>>
    ELSE LET h == Head(d)
             rest == DueMemories(Tail(d), t, include_overdue, found)
         IN  IF Selected(h, t, include_overdue) /\ h.memory_id \in found
             THEN <<DueEntry(h, t)>> \o rest
             ELSE rest

\* due_memories[:limit]
Take(s, n) == SubSeq(s, 1, Min(Len(s), Max(n, 0)))

\* the list get_due_reviews returns
DueReviews(limit, include_overdue, found) ==
    Take(SortByPriority(DueMemories(memory_health, now, include_overdue, found)),
         limit)

\* get_due_reviews(limit, include_overdue): returns DueReviews(limit,
\* include_overdue, found) and writes nothing
get_due_reviews(limit, include_overdue, found) ==
    /\ limit >= 1
    /\ UNCHANGED vars

\* RefreshAll without the calls of update_strength
RefreshNone(d, t) == d

\* health.update_strength() on every tracked object (lines 257-258, 281-282)
RefreshAll(d, t) == [i \in DOMAIN d |-> update_strength(d[i], t)]

\* lines 257-267 after the refresh: the matching items the store holds
RECURSIVE Matching(_, _, _, _)
Matching(d, t, strength, found) ==
    IF d = <<>> THEN <<>>
    ELSE LET h == Head(d)
             rest == Matching(Tail(d), t, strength, found)
         IN  IF h.strength = strength /\ h.memory_id \in found
             THEN <<[memory_id |-> h.memory_id, health |-> to_dict(h, t)]>> \o rest
             ELSE rest

\* the list get_memories_by_strength returns
MemoriesByStrength(strength, limit, found) ==
    Take(Matching(RefreshAll(memory_health, now), now, strength, found), limit)

\* get_memories_by_strength(strength, limit): returns
\* MemoriesByStrength(strength, limit, found), having refreshed every strength
get_memories_by_strength(strength, limit, found) ==
    /\ limit >= 1
    /\ memory_health' = RefreshAll(memory_health, now)
    /\ UNCHANGED <<review_history, now, tasks, searchVars>>

\* StudySession without the partition of lines 328-333
StudySessionDueOrder(duration_minutes, focus_weak, found) ==
    LET estimated_reviews == duration_minutes \div 2
    IN  Take(DueReviews(estimated_reviews * 2, TRUE, found), estimated_reviews)

\* suggest_study_session(duration_minutes, focus_weak), lines 323-337
StudySession(duration_minutes, focus_weak, found) ==
    LET estimated_reviews == duration_minutes \div 2
        due == DueReviews(estimated_reviews * 2, TRUE, found)
        isWeak(e) == e.health.strength \in {"weak", "fading"}
        weak == SelectSeq(due, isWeak)
        others == SelectSeq(due, LAMBDA e : ~isWeak(e))
    IN  Take(IF focus_weak THEN weak \o others ELSE due, estimated_reviews)

\* suggest_study_session(duration_minutes, focus_weak): returns
\* StudySession(duration_minutes, focus_weak, found) and writes nothing
suggest_study_session(duration_minutes, focus_weak, found) ==
    /\ duration_minutes >= 1
    /\ UNCHANGED vars

\* the days on which a review was recorded (lines 357-363)
ReviewDates ==
    {review_history[i].timestamp \div TicksPerDay : i \in DOMAIN review_history}

\* _calculate_review_streak, lines 368-381: the walk back from `expected`
RECURSIVE StreakFrom(_)
StreakFrom(expected) ==
    IF expected >= 0 /\ expected \in ReviewDates
    THEN 1 + StreakFrom(expected - 1)
    ELSE 0

\* round(a / b) for whole a >= 0 and b > 0: half to even
RoundDiv(a, b) ==
    LET q == a \div b
        r == a % b
    IN  IF 2 * r < b THEN q
        ELSE IF 2 * r > b THEN q + 1
        ELSE IF q % 2 = 0 THEN q ELSE q + 1

\* lines 276-314, on the refreshed objects
Dashboard(d, t) ==
    LET count(s) == Cardinality({i \in DOMAIN d : d[i].strength = s})
        due == {i \in DOMAIN d : d[i].next_review <= t}
        today == {i \in due : d[i].next_review \div TicksPerDay = t \div TicksPerDay}
    IN  [total_memories |-> Len(d),
         health_score |->
             RoundDiv(count("fresh") * 100 + count("strong") * 80
                      + count("moderate") * 60 + count("weak") * 40
                      + count("fading") * 20,
                      Max(Len(d), 1)),
         strength_distribution |-> [s \in MemoryStrength |-> count(s)],
         reviews_due_today |-> Cardinality(today),
         overdue_reviews |-> Cardinality(due \ today),
         review_streak |-> StreakFrom(t \div TicksPerDay)]

\* get_memory_health_dashboard(): returns
\* Dashboard(RefreshAll(memory_health, now), now), having refreshed every
\* strength
get_memory_health_dashboard ==
    /\ memory_health' = RefreshAll(memory_health, now)
    /\ UNCHANGED <<review_history, now, tasks, searchVars>>

\* GET /health/memory/{memory_id}: get_health, initialize_memory when that
\* finds nothing, to_dict
get_memory_health(id) ==
    /\ memory_health' =
           IF Tracked(id) THEN memory_health
           ELSE DictSet(memory_health, NewHealth(id, DefaultImportance, now))
    /\ UNCHANGED <<review_history, now, tasks, searchVars>>

----------------------------------------------------------------------------
(* The specification of the service *)

\* The arguments of the reads.  What a read returns is an operator of the
\* state and of these arguments (DueReviews, MemoriesByStrength, Dashboard,
\* StudySession), and the properties of the returned values range over
\* Limits, Durations and Stores; a read's step depends on none of them, so
\* the next-state relation takes each read with its default arguments.
DefaultLimit == 10
DefaultStrengthLimit == 20
DefaultDuration == 15
Limits == {1, DefaultLimit}
Durations == {2, DefaultDuration}
Stores == SUBSET MemoryIds

NoTask == [pc |-> "idle"]
NoQuery == [accepted |-> FALSE]
NoCall == [pc |-> "idle"]
NoResponse == [op |-> "none"]

SessionIds == {"s1", "s2"}

\* FocusModeService.__init__: no session, no history.  An id maps to
\* NoSession until uuid4() hands it out
NoSession == [state |-> "none"]
NoSessions == [sid \in SessionIds |-> NoSession]
NothingIndexed == [text |-> <<>>, vector |-> [indices |-> <<>>, values |-> <<>>]]

Init ==
    /\ memory_health = <<>>
    /\ review_history = <<>>
    /\ now = 0
    /\ tasks = [t \in TaskIds |-> NoTask]
    /\ search_service = [use_reranker |-> TRUE, reranker |-> FALSE]
    /\ query = NoQuery
    /\ call = NoCall
    /\ response = NoResponse
    /\ hash_seed = 0
    /\ embedding_service = [use_gemini |-> FALSE]
    /\ indexed = NothingIndexed
    /\ focus_mode_service = [sessions |-> NoSessions, session_history |-> <<>>]

\* the model's budget of passive accesses
MayAccess(id) == Tracked(id) => Health(id).access_count < MaxAccess

Next ==
    \/ \E id \in MemoryIds, importance \in ImportanceValues :
           initialize_memory(id, importance)
    \/ \E id \in MemoryIds, difficulty \in ReviewDifficulty :
           Len(review_history) < MaxQueueReviews /\ record_review(id, difficulty)
    \/ \E id \in MemoryIds : MayAccess(id) /\ record_access(id)
    \/ \E include_overdue \in BOOLEAN :
           get_due_reviews(DefaultLimit, include_overdue, MemoryIds)
    \/ \E strength \in MemoryStrength :
           get_memories_by_strength(strength, DefaultStrengthLimit, MemoryIds)
    \/ get_memory_health_dashboard
    \/ \E focus_weak \in BOOLEAN :
           suggest_study_session(DefaultDuration, focus_weak, MemoryIds)
    \/ \E id \in MemoryIds : get_memory_health(id)
    \/ Tick

Spec == Init /\ [][Next]_vars

----------------------------------------------------------------------------
(* The service with one memory, followed through a longer run of reviews *)

\* Each read is taken once, with its default arguments: its step is the
\* same whatever it is asked for (get_memories_by_strength refreshes every
\* strength before it filters by the one it is given).

NextSchedule ==
    \/ \E importance \in ImportanceValues : initialize_memory("m1", importance)
    \/ \E difficulty \in ReviewDifficulty :
           Len(review_history) < MaxReviews /\ record_review("m1", difficulty)
    \/ MayAccess("m1") /\ record_access("m1")
    \/ get_due_reviews(DefaultLimit, TRUE, MemoryIds)
    \/ get_memories_by_strength("weak", DefaultStrengthLimit, MemoryIds)
    \/ get_memory_health_dashboard
    \/ suggest_study_session(DefaultDuration, TRUE, MemoryIds)
    \/ get_memory_health("m1")
    \/ now < MaxScheduleTime /\ Tick

SpecSchedule == Init /\ [][NextSchedule]_vars

----------------------------------------------------------------------------
(* One memory over the days in which a reviewed memory weakens *)

\* the clock, up to a given time
TickWithin(limit) ==
    /\ now < limit
    /\ now' = now + 1
    /\ UNCHANGED <<memory_health, review_history, tasks, searchVars>>

NextAccess ==
    \/ initialize_memory("m1", DefaultImportance)
    \/ \E difficulty \in ReviewDifficulty :
           Len(review_history) < MaxAccessReviews /\ record_review("m1", difficulty)
    \/ MayAccess("m1") /\ record_access("m1")
    \/ get_memory_health_dashboard
    \/ TickWithin(MaxAccessTime)

SpecAccess == Init /\ [][NextAccess]_vars

----------------------------------------------------------------------------
(* The due queue of two memories over the days in which the overdue days   *)
(* of the priority score reach their cap of 7                              *)

NextQueue ==
    \/ \E id \in MemoryIds, importance \in ImportanceValues :
           initialize_memory(id, importance)
    \/ \E id \in MemoryIds : MayAccess(id) /\ record_access(id)
    \/ get_due_reviews(DefaultLimit, TRUE, MemoryIds)
    \/ get_memory_health_dashboard
    \/ TickWithin(MaxQueueTime)

SpecQueue == Init /\ [][NextQueue]_vars

----------------------------------------------------------------------------
(* record_review as coroutines.  Here every await is a point where the     *)
(* event loop may run another coroutine before the awaited call runs:     *)
(* `await self.initialize_memory(memory_id)` (line 142) and                *)
(* `await self._update_memory_health_metadata(...)` (line 186).  Between   *)
(* two awaits a coroutine runs alone.                                      *)

\* reviews begun: recorded, or waiting at line 142
Begun == Len(review_history)
         + Cardinality({t \in TaskIds : tasks[t].pc = "init"})

\* lines 144-183 on the object h, with the append to the history
ApplyReview(h, difficulty) ==
    \E interval \in Sm2Interval(h, difficulty) :
        /\ memory_health' =
               DictSet(memory_health, Reviewed(h, difficulty, now, interval))
        /\ review_history' =
               Append(review_history, ReviewEvent(h, difficulty, now))

\* the call, up to its first await: line 140 finds the object and the
\* review runs to line 186, or finds none and the coroutine waits at line 142
RecordReviewCall(t, id, difficulty) ==
    /\ tasks[t].pc = "idle"
    /\ Begun < MaxReviews
    /\ IF Tracked(id)
       THEN /\ ApplyReview(Health(id), difficulty)
            /\ tasks' = [tasks EXCEPT ![t] =
                   [pc |-> "persist", memory_id |-> id, difficulty |-> difficulty]]
       ELSE /\ tasks' = [tasks EXCEPT ![t] =
                   [pc |-> "init", memory_id |-> id, difficulty |-> difficulty]]
            /\ UNCHANGED <<memory_health, review_history>>
    /\ UNCHANGED <<now, searchVars>>

\* resumed at line 142: initialize_memory makes a new object and binds the
\* key to it, whatever the key holds by now; the review runs on that object
RecordReviewResume(t) ==
    /\ tasks[t].pc = "init"
    /\ ApplyReview(NewHealth(tasks[t].memory_id, DefaultImportance, now),
                   tasks[t].difficulty)
    /\ tasks' = [tasks EXCEPT ![t].pc = "persist"]
    /\ UNCHANGED <<now, searchVars>>

\* resumed at line 186: _update_memory_health_metadata writes nothing the
\* service keeps; the coroutine returns
RecordReviewReturn(t) ==
    /\ tasks[t].pc = "persist"
    /\ tasks' = [tasks EXCEPT ![t] = NoTask]
    /\ UNCHANGED <<memory_health, review_history, now, searchVars>>

NextConc ==
    \/ \E t \in TaskIds, id \in MemoryIds, difficulty \in ReviewDifficulty :
           RecordReviewCall(t, id, difficulty)
    \/ \E t \in TaskIds : RecordReviewResume(t)
    \/ \E t \in TaskIds : RecordReviewReturn(t)
    \/ Tick

SpecConc == Init /\ [][NextConc]_vars

----------------------------------------------------------------------------
(* SearchQuery and the size of the candidate pool *)

\* the Field constraints of SearchQuery (models/search.py lines 36-59)
SearchQueryValid(q) ==
    /\ q.query_length >= 1
    /\ q.limit >= 1 /\ q.limit <= 100
    /\ q.offset >= 0
    /\ q.rerank_top_k >= 10 /\ q.rerank_top_k <= 200

\* search.py line 119
CandidatesLimit(q) ==
    IF search_service.use_reranker /\ q.rerank THEN q.rerank_top_k ELSE q.limit

QueryLengths == {0, 1}
QueryLimits == {0, 1, 10, 50, 100, 101}
QueryOffsets == {-1, 0, 5}
RerankTopKs == {9, 10, 50, 200, 201}

Requests ==
    [query_length : QueryLengths, limit : QueryLimits, offset : QueryOffsets,
     rerank : BOOLEAN, rerank_top_k : RerankTopKs]

\* SearchService.initialize: _init_reranker catches its own failure and
\* leaves _reranker None, so initialize's except branch, the one place that
\* clears _use_reranker, is never taken
initialize(loaded) ==
    /\ search_service' = [search_service EXCEPT !.reranker = loaded]
    /\ UNCHANGED <<memory_health, review_history, now, tasks, query, ioVars>>

\* a request reaches POST /search: pydantic builds the SearchQuery or
\* refuses it; search() sizes the candidate pool of an accepted one
search(q) ==
    /\ query' = IF SearchQueryValid(q)
                THEN [accepted |-> TRUE, request |-> q,
                      candidates_limit |-> CandidatesLimit(q)]
                ELSE [accepted |-> FALSE, request |-> q]
    /\ UNCHANGED <<memory_health, review_history, now, tasks, search_service, ioVars>>

NextQuery ==
    \/ \E loaded \in BOOLEAN : initialize(loaded)
    \/ \E q \in Requests : search(q)

SpecQuery == Init /\ [][NextQuery]_vars

----------------------------------------------------------------------------
(* search(): query vectors, retrieval, temporal decay, reranking.  Scores  *)
(* and the temporal decay factor are held in units of 1/10000 and 1/100.   *)
(* A search() call is followed through its awaits: the embedding provider  *)
(* and the cross-encoder answer in steps of their own.                     *)

SearchModes == {"hybrid", "dense", "sparse"}

\* a point of the vector store as hybrid_search returns it: id, score and
\* the age in days of payload["created_at"], `dated` being whether the
\* payload holds a created_at that parses
Points ==
    [id : MemoryIds, score : {6000, 9000}, dated : BOOLEAN, age : {0, 300}]

\* what the store may answer: points of distinct ids, best score first
Rankings ==
    {<<>>} \cup {<<p>> : p \in Points}
        \cup {<<p, r>> : <<p, r>> \in
                 {pr \in Points \X Points :
                     pr[1].id # pr[2].id /\ pr[1].score >= pr[2].score}}

\* the SearchQuery fields search() reads, validation passed
SearchQueries ==
    [mode : SearchModes, limit : {1, 2}, temporal_boost : BOOLEAN,
     temporal_decay : {10, 100}, rerank : BOOLEAN, rerank_top_k : {50}]

\* search.py lines 91-95: the query vectors computed
QueryVectors(mode) ==
    [dense |-> TRUE, sparse |-> mode \in {"hybrid", "sparse"}]

\* search.py lines 122-136 and qdrant.py lines 228-265: the vectors
\* hybrid_search is given and the query it sends.  dense_vector_for_search
\* is None in sparse mode, and `dense_vector_for_search or dense_vector`
\* puts the dense vector back; sparse_vector is None in dense mode.
StoreRequest(q) ==
    LET vectors == QueryVectors(q.mode)
        dense_vector_for_search == q.mode # "sparse"
        dense_given == dense_vector_for_search \/ vectors.dense
        sparse_given == vectors.sparse /\ q.mode # "dense"
    IN  [dense |-> dense_given,
         sparse |-> sparse_given,
         fusion |-> sparse_given,
         limit |-> CandidatesLimit(q)]

\* math.exp(-age_days * decay_factor / 30), in units of 1/10000
TemporalDecay(age_days, decay_factor) ==
    LET x == (age_days * decay_factor * 10) \div 3
    IN  (ExpNegWhole(x \div 10000) * ExpNegFrac(x % 10000)) \div 10000

\* search.py lines 230-243 on one result
Decayed(result, decay_factor) ==
    IF result.dated
    THEN [result EXCEPT !.score =
             (result.score * (5000 + TemporalDecay(result.age, decay_factor) \div 2))
                 \div 10000]
    ELSE result

\* results.sort(key=score, reverse=True): stable
RECURSIVE InsertByScore(_, _)
InsertByScore(sorted, r) ==
    IF sorted = <<>> THEN <<r>>
    ELSE IF Head(sorted).score >= r.score
         THEN <<Head(sorted)>> \o InsertByScore(Tail(sorted), r)
         ELSE <<r>> \o sorted

RECURSIVE SortByScore(_)
SortByScore(results) ==
    IF results = <<>> THEN <<>>
    ELSE InsertByScore(SortByScore(SubSeq(results, 1, Len(results) - 1)),
                       results[Len(results)])

\* _apply_temporal_decay leaving out the results it does not adjust
apply_temporal_decayDatedOnly(results, decay_factor) ==
    SortByScore(SelectSeq([i \in DOMAIN results |-> Decayed(results[i], decay_factor)],
                          LAMBDA r : r.dated))

\* _apply_temporal_decay(results, decay_factor)
apply_temporal_decay(results, decay_factor) ==
    SortByScore([i \in DOMAIN results |-> Decayed(results[i], decay_factor)])

\* what self._reranker.predict may do: raise, or score every pair; a score
\* is held as max(0, min(1, (score + 10) / 20)), in units of 1/10000
RerankerOutcomes ==
    {[raised |-> TRUE, scores |-> [id \in MemoryIds |-> 0]]}
        \cup {[raised |-> FALSE, scores |-> f] : f \in [MemoryIds -> {0, 10000}]}

\* _rerank whose except branch (line 284) returns the whole list
rerankUntruncated(results, outcome, top_k) ==
    IF outcome.raised THEN results
    ELSE Take(SortByScore(
                 [i \in DOMAIN results |->
                     [results[i] EXCEPT !.score =
                         (3 * results[i].score
                              + 7 * outcome.scores[results[i].id]) \div 10]]),
              top_k)

\* _rerank(query, results, top_k), lines 259-284, results not empty
rerank(results, outcome, top_k) ==
    IF outcome.raised THEN Take(results, top_k)
    ELSE Take(SortByScore(
                 [i \in DOMAIN results |->
                     [results[i] EXCEPT !.score =
                         (3 * results[i].score
                              + 7 * outcome.scores[results[i].id]) \div 10]]),
              top_k)

\* search.py lines 159-206
SearchResponse(q, results) ==
    [success |-> TRUE, raised |-> FALSE, results |-> results,
     total |-> Len(results)]

\* search.py line 154
UsesReranker(q) ==
    search_service.use_reranker /\ q.rerank /\ search_service.reranker

\* search(query) is called: line 91 awaits the embedding of the query
SearchBegin(q) ==
    /\ call.pc \in {"idle", "done"}
    /\ call' = [pc |-> "embedding", query |-> q]
    /\ UNCHANGED <<memory_health, review_history, now, tasks, search_service,
                   query, response, hash_seed, embedding_service, indexed, focus_mode_service>>

\* the embedding provider answers, with a vector or with an exception
\* that search() lets through
EmbedAnswer(ok) ==
    /\ call.pc = "embedding"
    /\ call' = IF ok THEN [call EXCEPT !.pc = "embedded"]
               ELSE [pc |-> "done", query |-> call.query, reranker |-> "unused",
                     raw_results |-> <<>>, candidates |-> <<>>,
                     response |-> [success |-> FALSE, raised |-> TRUE,
                                   results |-> <<>>, total |-> 0]]
    /\ UNCHANGED <<memory_health, review_history, now, tasks, search_service,
                   query, response, hash_seed, embedding_service, indexed, focus_mode_service>>

\* lines 97-157 up to the call of the cross-encoder: the store answers
\* with the first `limit` points of its ranking
Retrieve(ranking) ==
    /\ call.pc = "embedded"
    /\ LET q == call.query
           request == StoreRequest(q)
           raw_results == Take(ranking, request.limit)
           candidates == IF q.temporal_boost
                         THEN apply_temporal_decay(raw_results, q.temporal_decay)
                         ELSE raw_results
           sent == [query |-> q, request |-> request,
                    raw_results |-> raw_results, candidates |-> candidates]
       IN  call' =
             IF raw_results = <<>>
             THEN [pc |-> "done", reranker |-> "unused"] @@ sent
                      @@ [response |-> SearchResponse(q, <<>>)]
             ELSE IF UsesReranker(q)
             THEN [pc |-> "reranking"] @@ sent
             ELSE [pc |-> "done", reranker |-> "unused"] @@ sent
                      @@ [response |-> SearchResponse(q, Take(candidates, q.limit))]
    /\ UNCHANGED <<memory_health, review_history, now, tasks, search_service,
                   query, response, hash_seed, embedding_service, indexed, focus_mode_service>>

\* self._reranker.predict(pairs) answers (line 267)
RerankAnswer(outcome) ==
    /\ call.pc = "reranking"
    /\ call' = [pc |-> "reranked", outcome |-> outcome] @@ call
    /\ UNCHANGED <<memory_health, review_history, now, tasks, search_service,
                   query, response, hash_seed, embedding_service, indexed, focus_mode_service>>

\* lines 269-284 and 159-206: the scores are combined, or the exception is
\* caught, and the response is built
Respond ==
    /\ call.pc = "reranked"
    /\ call' =
          [pc |-> "done",
           reranker |-> IF call.outcome.raised THEN "raised" ELSE "scored",
           query |-> call.query, request |-> call.request,
           raw_results |-> call.raw_results, candidates |-> call.candidates,
           response |-> SearchResponse(call.query,
                           rerank(call.candidates, call.outcome, call.query.limit))]
    /\ UNCHANGED <<memory_health, review_history, now, tasks, search_service,
                   query, response, hash_seed, embedding_service, indexed, focus_mode_service>>

NextSearch ==
    \/ \E loaded \in BOOLEAN : initialize(loaded)
    \/ \E q \in SearchQueries : SearchBegin(q)
    \/ \E ok \in BOOLEAN : EmbedAnswer(ok)
    \/ \E ranking \in Rankings : Retrieve(ranking)
    \/ \E outcome \in RerankerOutcomes : RerankAnswer(outcome)
    \/ Respond

SpecSearch == Init /\ [][NextSearch]_vars

\* The steps that are the service's own are taken whenever they can be;
\* nothing makes the embedding provider or the cross-encoder answer.
SpecSearchLive ==
    /\ Init
    /\ [][NextSearch]_vars
    /\ WF_vars(\E ranking \in Rankings : Retrieve(ranking))
    /\ WF_vars(Respond)

----------------------------------------------------------------------------
(* find_similar(memory_id, limit), called by POST /search/similar with a   *)
(* SimilarQuery (limit from 1 to 50)                                       *)

\* the ids asked about: the ids the store ranks and one it never ranks
SimilarIds == MemoryIds \cup {"m3"}
SimilarLimits == {1, 2}

\* what get_memory finds under the id (line 323): nothing, a point whose
\* payload has no content, a point with content
Lookups == {"absent", "empty", "content"}

\* line 348 with reranking left at its default
SimilarSearchQueryReranked(limit) ==
    [mode |-> "hybrid", limit |-> limit + 1, temporal_boost |-> TRUE,
     temporal_decay |-> 10, rerank |-> TRUE, rerank_top_k |-> 50]

\* line 348: SearchQuery(query=content, limit=limit + 1, rerank=False), the
\* other fields at their defaults
SimilarSearchQuery(limit) ==
    [mode |-> "hybrid", limit |-> limit + 1, temporal_boost |-> TRUE,
     temporal_decay |-> 10, rerank |-> FALSE, rerank_top_k |-> 50]

\* lines 325-333 and 337-346
SimilarFailure(message) ==
    [success |-> FALSE, raised |-> FALSE, results |-> <<>>, total |-> 0,
     message |-> message]

\* the answer for an id the store does not hold, had it no message
NotFoundSilent == SimilarFailure("")

\* lines 325-333
NotFound == SimilarFailure("Memory not found")

\* find_similar has not returned yet
SimilarPending ==
    [success |-> FALSE, raised |-> FALSE, results |-> <<>>, total |-> 0,
     message |-> "pending"]

\* lines 351-356: the source is filtered out and the list is cut
SimilarResults(results, memory_id, limit) ==
    Take(SelectSeq(results, LAMBDA r : r.id # memory_id), limit)

\* lines 320-349: the lookup, and for a memory with content the search
\* that starts with the embedding of that content
FindSimilarBegin(memory_id, limit, found) ==
    /\ call.pc \in {"idle", "done"}
    /\ response.op = "find_similar" => response.pc = "done"
    /\ response' =
          [op |-> "find_similar", memory_id |-> memory_id, limit |-> limit,
           found |-> found,
           pc |-> IF found = "content" THEN "searching" ELSE "done",
           io |-> IF found = "content" THEN {"get_memory", "embed_query"}
                  ELSE {"get_memory"},
           result |-> CASE found = "absent" -> NotFound
                        [] found = "empty" -> SimilarFailure("Memory has no content")
                        [] OTHER -> SimilarPending]
    /\ call' = IF found = "content"
               THEN [pc |-> "embedding", query |-> SimilarSearchQuery(limit)]
               ELSE call
    /\ UNCHANGED <<memory_health, review_history, now, tasks, search_service,
                   query, hash_seed, embedding_service, indexed, focus_mode_service>>

\* lines 349-358: search() has returned or raised
FindSimilarReturn ==
    /\ response.op = "find_similar" /\ response.pc = "searching"
    /\ call.pc = "done"
    /\ LET results == SimilarResults(call.response.results,
                                     response.memory_id, response.limit)
       IN  response' =
             IF call.response.raised
             THEN [response EXCEPT
                      !.pc = "done",
                      !.result = [success |-> FALSE, raised |-> TRUE,
                                  results |-> <<>>, total |-> 0, message |-> ""]]
             ELSE [response EXCEPT
                      !.pc = "done",
                      !.io = @ \cup {"hybrid_search"},
                      !.result = [success |-> call.response.success,
                                  raised |-> FALSE, results |-> results,
                                  total |-> Len(results), message |-> ""]]
    /\ UNCHANGED <<memory_health, review_history, now, tasks, search_service,
                   query, call, hash_seed, embedding_service, indexed, focus_mode_service>>

NextSimilar ==
    \/ \E loaded \in BOOLEAN : initialize(loaded)
    \/ \E memory_id \in SimilarIds, limit \in SimilarLimits, found \in Lookups :
           FindSimilarBegin(memory_id, limit, found)
    \/ \E ok \in BOOLEAN : EmbedAnswer(ok)
    \/ \E ranking \in Rankings : Retrieve(ranking)
    \/ FindSimilarReturn

SpecSimilar == Init /\ [][NextSimilar]_vars

----------------------------------------------------------------------------
(* The routes: what FastAPI refuses before the handler runs (status 422), *)
(* what the handler's `except Exception` turns into status 500, and the   *)
(* operations run on the way.  The application installs no exception      *)
(* handler of its own.                                                     *)

\* what a route answered: its status code and the operations it ran
RouteResponse(op, request, status, io) ==
    [op |-> op, request |-> request, status |-> status, io |-> io]

\* the handlers' call of search(query): it returns, or the embedding
\* provider or the store raises and the handler answers 500
Searched(op, request, served) ==
    IF served
    THEN RouteResponse(op, request, 200, {"embed_query", "hybrid_search"})
    ELSE RouteResponse(op, request, 500, {"embed_query"})

\* POST /search (routes/search.py lines 16-33): the body is a SearchQuery,
\* built and validated before search_memories is called
PostSearch(q, served) ==
    /\ response' = IF SearchQueryValid(q)
                   THEN Searched("POST /search", q, served)
                   ELSE RouteResponse("POST /search", q, 422, {})
    /\ UNCHANGED <<memory_health, review_history, now, tasks, search_service,
                   query, call, hash_seed, embedding_service, indexed, focus_mode_service>>

\* the bodies sent to POST /search: each constraint met and broken
RouteQueries ==
    [query_length : QueryLengths, limit : {0, 1, 101}, offset : {-1, 0},
     rerank : {TRUE}, rerank_top_k : {50}]

QuickLimits == {0, 1, DefaultLimit, 100, 101}

\* the SearchQuery quick_search builds at line 68
QuickQuery(query_length, limit) ==
    [query_length |-> query_length, limit |-> limit, offset |-> 0,
     rerank |-> TRUE, rerank_top_k |-> 50]

\* GET /search/quick (lines 58-95): q is any string and limit any integer;
\* SearchQuery(query=q, limit=limit) is built inside the try block, and its
\* ValidationError is caught by `except Exception` like any other
QuickSearchRefused(query_length, limit) ==
    RouteResponse("GET /search/quick", QuickQuery(query_length, limit), 500, {})

QuickSearch(query_length, limit, served) ==
    /\ response' = IF SearchQueryValid(QuickQuery(query_length, limit))
                   THEN Searched("GET /search/quick",
                                 QuickQuery(query_length, limit), served)
                   ELSE QuickSearchRefused(query_length, limit)
    /\ UNCHANGED <<memory_health, review_history, now, tasks, search_service,
                   query, call, hash_seed, embedding_service, indexed, focus_mode_service>>

MaxRouteReviews == 2

\* the memory_id strings of a ReviewRequest: the ids, and one that is no UUID
RequestIds == MemoryIds \cup {"not-a-uuid"}
RequestDifficulties == 0..5

\* ReviewRequest.difficulty: Field(..., ge=1, le=4) (intelligence.py line 57)
ReviewRequestValid(difficulty) == difficulty >= 1 /\ difficulty <= 4

\* POST /intelligence/health/review (lines 583-603): the body is validated
\* first; UUID(request.memory_id) raises inside the try block; record_review
\* updates the health state and writes it to the store
PostReview(memory_id, difficulty) ==
    LET request == [memory_id |-> memory_id, difficulty |-> difficulty]
        op == "POST /health/review"
    IN  IF ~ReviewRequestValid(difficulty)
        THEN /\ response' = RouteResponse(op, request, 422, {})
             /\ UNCHANGED <<memory_health, review_history, now, tasks,
                            search_service, query, call, hash_seed,
                            embedding_service, indexed, focus_mode_service>>
        ELSE IF memory_id \notin MemoryIds
        THEN /\ response' = RouteResponse(op, request, 500, {})
             /\ UNCHANGED <<memory_health, review_history, now, tasks,
                            search_service, query, call, hash_seed,
                            embedding_service, indexed, focus_mode_service>>
        ELSE /\ Len(review_history) < MaxRouteReviews
             /\ LET h == ReviewTarget(memory_id)
                IN  /\ review_history' =
                           Append(review_history, ReviewEvent(h, difficulty, now))
                    /\ \E interval \in Sm2Interval(h, difficulty) :
                           memory_health' =
                               DictSet(memory_health,
                                       Reviewed(h, difficulty, now, interval))
             /\ response' = RouteResponse(op, request, 200,
                                          {"health_state", "set_payload"})
             /\ UNCHANGED <<now, tasks, search_service, query, call, hash_seed,
                            embedding_service, indexed, focus_mode_service>>

DueLimits == {0, 1, DefaultLimit, 50, 51}

\* GET /intelligence/health/due-reviews (lines 563-580): limit is
\* Query(10, ge=1, le=50); get_due_reviews reads the health state
GetDueReviews(limit) ==
    /\ response' = IF limit >= 1 /\ limit <= 50
                   THEN RouteResponse("GET /health/due-reviews",
                                      [limit |-> limit], 200, {"health_state"})
                   ELSE RouteResponse("GET /health/due-reviews",
                                      [limit |-> limit], 422, {})
    /\ UNCHANGED <<memory_health, review_history, now, tasks, search_service,
                   query, call, hash_seed, embedding_service, indexed, focus_mode_service>>

NextRoutes ==
    \/ \E q \in RouteQueries, served \in BOOLEAN : PostSearch(q, served)
    \/ \E query_length \in QueryLengths, limit \in QuickLimits, served \in BOOLEAN :
           QuickSearch(query_length, limit, served)
    \/ \E memory_id \in RequestIds, difficulty \in RequestDifficulties :
           PostReview(memory_id, difficulty)
    \/ \E limit \in DueLimits : GetDueReviews(limit)

SpecRoutes == Init /\ [][NextRoutes]_vars

\* dict.get(key, default) on a dict with string keys
Get(d, key, default) == IF key \in DOMAIN d THEN d[key] ELSE default

\* GET /intelligence/health/score, lines 463-476: the answer built from the
\* dashboard the route has read
HealthScoreBody(dashboard) ==
    LET strength_dist ==
            Get(dashboard, "strength_distribution", [s \in {} |-> 0])
    IN  [health_score |-> Get(dashboard, "overall_health", 75),
         total_memories |-> Get(dashboard, "total_memories", 0),
         due_today |-> Get(dashboard, "due_for_review", 0),
         overdue |-> Get(dashboard, "overdue", 0),
         streak |-> Get(dashboard, "streak", 0),
         strength_distribution |->
             [s \in MemoryStrength |-> Get(strength_dist, s, 0)]]

\* GET /intelligence/health/score (lines 458-494): get_memory_health_dashboard
\* refreshes every strength and returns the dashboard, and the route answers
\* from it.  Nothing the dashboard does on this state raises, so the mock
\* answer of lines 477-494 is never given.
get_memory_health_score ==
    /\ memory_health' = RefreshAll(memory_health, now)
    /\ response' =
           [op |-> "GET /health/score",
            status |-> 200,
            body |-> HealthScoreBody(Dashboard(RefreshAll(memory_health, now), now))]
    /\ UNCHANGED <<review_history, now, tasks, search_service, query, call,
                   hash_seed, embedding_service, indexed, focus_mode_service>>

\* the health score route over the engine and the clock
NextScore ==
    \/ \E id \in MemoryIds : initialize_memory(id, DefaultImportance)
    \/ \E id \in MemoryIds, difficulty \in ReviewDifficulty :
           Len(review_history) < MaxQueueReviews /\ record_review(id, difficulty)
    \/ get_memory_health_score
    \/ Tick

SpecScore == Init /\ [][NextScore]_vars

----------------------------------------------------------------------------
(* EmbeddingService: sparse vectors and batch embedding.  A text is the    *)
(* sequence of its lower-case words.  str hashes are salted per process    *)
(* (hash randomization is on unless PYTHONHASHSEED is set, and nothing in  *)
(* the repository sets it), so hash(term) is a function of the process's   *)
(* salt and the term.                                                      *)

SparseDimension == 30000

Stopwords == {"the"}
Words == {"memory", "graph", "the", "ai"}
Salts == {0, 1}

\* the texts of the model: up to two words
Texts == {<<>>} \cup {<<w>> : w \in Words} \cup {<<w, v>> : w, v \in Words}

\* _tokenize(text), lines 302-317: stopwords and words of one or two
\* letters are dropped
tokenize(text) ==
    SelectSeq(text, LAMBDA w : w \notin Stopwords /\ w # "ai")

\* hash(term) under a salt: some number that depends on both
StrHash(salt, term) ==
    LET code == CASE term = "memory" -> 104729
                  [] term = "graph" -> 15485863
                  [] OTHER -> 32452843
    IN  code * (salt + 1) + 7919 * salt

\* line 282
TermIndex(salt, term) == StrHash(salt, term) % SparseDimension

\* lines 285-287 with k1 = 1.5, b = 0.75 and avg_doc_length = 500, in units
\* of 1/10000: freq * 2.5 / (freq + 1.5 * (0.25 + 0.75 * doc_length / 500))
BM25Weight(freq, doc_length) ==
    (freq * 25000000) \div ((freq * 100000 + 37500 + 225 * doc_length) \div 100)

\* the numbers of a set, in increasing order
RECURSIVE Sorted(_)
Sorted(S) ==
    IF S = {} THEN <<>>
    ELSE LET least == CHOOSE x \in S : \A y \in S : x <= y
         IN  <<least>> \o Sorted(S \ {least})

\* the sum of f over S
RECURSIVE Sum(_, _)
Sum(f, S) ==
    IF S = {} THEN 0
    ELSE LET x == CHOOSE y \in S : TRUE IN f[x] + Sum(f, S \ {x})

\* generate_sparse_vector(text) in a process of the given salt
SparseVector(salt, text) ==
    LET tokens == tokenize(text)
        terms == {tokens[i] : i \in DOMAIN tokens}
        tf == [term \in terms |->
                  Cardinality({i \in DOMAIN tokens : tokens[i] = term})]
        weight == [term \in terms |-> BM25Weight(tf[term], Len(tokens))]
        index_values ==
            [idx \in {TermIndex(salt, term) : term \in terms} |->
                Sum(weight, {term \in terms : TermIndex(salt, term) = idx})]
        indices == Sorted(DOMAIN index_values)
    IN  [indices |-> indices,
         values |-> [i \in DOMAIN indices |-> index_values[indices[i]]]]

\* generate_sparse_vector(text) in the running process
generate_sparse_vector(text) == SparseVector(hash_seed, text)

\* the service process is started anew
\* _use_gemini is bool(settings.gemini_api_key), service.py line 24
Restart(salt, gemini_api_key) ==
    /\ hash_seed' = salt
    /\ embedding_service' = [use_gemini |-> gemini_api_key]
    /\ response' = NoResponse
    /\ UNCHANGED <<memory_health, review_history, now, tasks, search_service,
                   query, call, indexed, focus_mode_service>>

\* a memory is created (routes/memory.py lines 44-45): its sparse vector
\* goes into the store
Ingest(text) ==
    /\ indexed' = [text |-> text, vector |-> generate_sparse_vector(text)]
    /\ UNCHANGED <<memory_health, review_history, now, tasks, search_service,
                   query, call, response, hash_seed,
                   embedding_service, focus_mode_service>>

EmbeddingDimension == 768
MaxBatch == 2

\* the strings handed to embed_batch: empty, whitespace only, and one with
\* content
BatchTexts == {"", " ", "notes"}
Batches == UNION {[1..n -> BatchTexts] : n \in 0..MaxBatch}

\* `text and text.strip()`, lines 78 and 103
HasContent(text) == text \notin {"", " "}

\* [0.0] * settings.embedding_dimension
ZeroVector == [backend |-> "none", text |-> "", dimension |-> EmbeddingDimension]

\* the vector a backend returns for a text
Embedding(backend, text) ==
    [backend |-> backend, text |-> text, dimension |-> EmbeddingDimension]

\* what the backends do during one embed_batch call: whether
\* batch_embed_contents answers, the positions of the batch whose single
\* embed_content request fails, whether the local model loads and encodes
BackendOutcomes ==
    [batch_ok : BOOLEAN, failing : SUBSET (1..MaxBatch), local_ok : BOOLEAN]

\* _embed_batch_with_local(texts), lines 209-217
embed_batch_with_local(texts, outcome) ==
    IF outcome.local_ok
    THEN [raised |-> FALSE,
          embeddings |-> [i \in DOMAIN texts |-> Embedding("local", texts[i])]]
    ELSE [raised |-> TRUE, embeddings |-> <<>>]

\* _embed_batch_with_gemini without the outer except of lines 195-197
embed_batch_with_geminiNoFallback(texts, outcome) ==
    IF outcome.batch_ok \/ outcome.failing \cap DOMAIN texts = {}
    THEN [raised |-> FALSE,
          embeddings |-> [i \in DOMAIN texts |-> Embedding("gemini", texts[i])]]
    ELSE [raised |-> TRUE, embeddings |-> <<>>]

\* _embed_batch_with_gemini(texts), lines 139-197: the batch request, on its
\* failure one request per text, and on any failure of those the local model
\* for the whole list
embed_batch_with_gemini(texts, outcome) ==
    IF outcome.batch_ok \/ outcome.failing \cap DOMAIN texts = {}
    THEN [raised |-> FALSE,
          embeddings |-> [i \in DOMAIN texts |-> Embedding("gemini", texts[i])]]
    ELSE embed_batch_with_local(texts, outcome)

\* the positions of the texts with content, in order (lines 100-105)
ValidIndices(texts) ==
    Sorted({i \in DOMAIN texts : HasContent(texts[i])})

\* embed_batch(texts), lines 86-120
embed_batch(texts, outcome) ==
    LET valid_indices == ValidIndices(texts)
        valid_texts == [k \in DOMAIN valid_indices |-> texts[valid_indices[k]]]
        valid_embeddings ==
            IF embedding_service.use_gemini
            THEN embed_batch_with_gemini(valid_texts, outcome)
            ELSE embed_batch_with_local(valid_texts, outcome)
        zipped == {k \in DOMAIN valid_indices : k \in DOMAIN valid_embeddings.embeddings}
    IN  IF texts = <<>> THEN [raised |-> FALSE, vectors |-> <<>>]
        ELSE IF valid_texts = <<>>
        THEN [raised |-> FALSE, vectors |-> [i \in DOMAIN texts |-> ZeroVector]]
        ELSE IF valid_embeddings.raised THEN [raised |-> TRUE, vectors |-> <<>>]
        ELSE [raised |-> FALSE,
              vectors |->
                  [i \in DOMAIN texts |->
                      IF \E k \in zipped : valid_indices[k] = i
                      THEN valid_embeddings.embeddings[
                               CHOOSE k \in zipped : valid_indices[k] = i]
                      ELSE ZeroVector]]

\* one embed_batch call with what the backends did during it
EmbedBatch(texts, outcome) ==
    /\ response' = [op |-> "embed_batch", texts |-> texts, backends |-> outcome,
                    result |-> embed_batch(texts, outcome)]
    /\ UNCHANGED <<memory_health, review_history, now, tasks, search_service,
                   query, call, hash_seed, embedding_service, indexed, focus_mode_service>>

\* ingestion across runs of the service
NextEmbed ==
    \/ \E salt \in Salts, gemini_api_key \in BOOLEAN : Restart(salt, gemini_api_key)
    \/ \E text \in Texts : Ingest(text)

SpecEmbed == Init /\ [][NextEmbed]_vars

\* batch embedding under either configuration
NextBatch ==
    \/ \E salt \in Salts, gemini_api_key \in BOOLEAN : Restart(salt, gemini_api_key)
    \/ \E texts \in Batches, outcome \in BackendOutcomes : EmbedBatch(texts, outcome)

SpecBatch == Init /\ [][NextBatch]_vars

----------------------------------------------------------------------------
(* Focus sessions (focus_mode.py) *)

SessionState == {"pending", "active", "paused", "completed", "cancelled"}
SessionTypes == {"review", "deep_work"}

Sessions == focus_mode_service.sessions
SessionHistory == focus_mode_service.session_history

\* self._sessions.get(session_id) finds a session
HasSession(sid) == Sessions[sid] # NoSession

\* FocusSession.__init__; an Optional[datetime] is <<>> or <<t>>
NewSession(sid, session_type, memory_ids) ==
    [id |-> sid,
     session_type |-> session_type,
     memory_ids |-> memory_ids,
     state |-> "pending",
     started_at |-> <<>>,
     paused_at |-> <<>>,
     completed_at |-> <<>>,
     memories_reviewed |-> <<>>]

\* FocusSession.start
start(s, t) == [s EXCEPT !.state = "active", !.started_at = <<t>>]

\* FocusSession.pause
pause(s, t) ==
    IF s.state = "active"
    THEN [s EXCEPT !.state = "paused", !.paused_at = <<t>>]
    ELSE s

\* FocusSession.resume
resume(s, t) ==
    IF s.state = "paused" /\ s.paused_at # <<>>
    THEN [s EXCEPT !.state = "active", !.paused_at = <<>>]
    ELSE s

\* FocusSession.complete
complete(s, t) == [s EXCEPT !.state = "completed", !.completed_at = <<t>>]

\* FocusSession.cancel
cancel(s, t) == [s EXCEPT !.state = "cancelled", !.completed_at = <<t>>]

\* what a call of the focus service answered: error is the message of the
\* ValueError it raised, or "none"
FocusAnswer(op, sid, error) == [op |-> op, session_id |-> sid, error |-> error]

\* the service with session sid replaced
SessionSet(sid, s) == [focus_mode_service EXCEPT !.sessions[sid] = s]

\* what no call of the focus service writes
FocusFrame ==
    UNCHANGED <<now, tasks, search_service, query, call, hash_seed,
                embedding_service, indexed>>

\* FocusSession.duration_minutes by default
FocusDuration == 25

\* create_session, lines 162-166: the due memories selected for a review
\* session
AutoSelected(session_type, auto_select_memories, found) ==
    IF auto_select_memories /\ session_type = "review"
    THEN LET due_reviews == DueReviews(FocusDuration \div 2, TRUE, found)
         IN  [i \in DOMAIN due_reviews |-> due_reviews[i].memory_id]
    ELSE <<>>

\* create_session(session_type, auto_select_memories=...), the caller giving
\* no memory_ids; sid is the id uuid4() draws, one no session has
create_session(sid, session_type, auto_select_memories, found) ==
    /\ ~HasSession(sid)
    /\ focus_mode_service' =
           SessionSet(sid, NewSession(sid, session_type,
                          AutoSelected(session_type, auto_select_memories, found)))
    /\ response' = FocusAnswer("create_session", sid, "none")
    /\ UNCHANGED <<memory_health, review_history>>
    /\ FocusFrame

\* start_session(session_id)
start_session(sid) ==
    /\ IF HasSession(sid)
       THEN /\ focus_mode_service' = SessionSet(sid, start(Sessions[sid], now))
            /\ response' = FocusAnswer("start_session", sid, "none")
       ELSE /\ response' = FocusAnswer("start_session", sid, "Session not found")
            /\ UNCHANGED focus_mode_service
    /\ UNCHANGED <<memory_health, review_history>>
    /\ FocusFrame

\* pause_session(session_id)
pause_session(sid) ==
    /\ IF HasSession(sid)
       THEN /\ focus_mode_service' = SessionSet(sid, pause(Sessions[sid], now))
            /\ response' = FocusAnswer("pause_session", sid, "none")
       ELSE /\ response' = FocusAnswer("pause_session", sid, "Session not found")
            /\ UNCHANGED focus_mode_service
    /\ UNCHANGED <<memory_health, review_history>>
    /\ FocusFrame

\* resume_session(session_id)
resume_session(sid) ==
    /\ IF HasSession(sid)
       THEN /\ focus_mode_service' = SessionSet(sid, resume(Sessions[sid], now))
            /\ response' = FocusAnswer("resume_session", sid, "none")
       ELSE /\ response' = FocusAnswer("resume_session", sid, "Session not found")
            /\ UNCHANGED focus_mode_service
    /\ UNCHANGED <<memory_health, review_history>>
    /\ FocusFrame

\* lines 224-232: the record complete_session saves to the history
HistoryRecord(s) ==
    [session_id |-> s.id,
     session_type |-> s.session_type,
     completed_at |-> s.completed_at[1],
     memories_reviewed |-> Len(s.memories_reviewed)]

\* complete_session(session_id)
complete_session(sid) ==
    /\ IF HasSession(sid)
       THEN LET s == complete(Sessions[sid], now)
            IN  /\ focus_mode_service' =
                       [sessions |-> [Sessions EXCEPT ![sid] = s],
                        session_history |-> Append(SessionHistory, HistoryRecord(s))]
                /\ response' = FocusAnswer("complete_session", sid, "none")
       ELSE /\ response' = FocusAnswer("complete_session", sid, "Session not found")
            /\ UNCHANGED focus_mode_service
    /\ UNCHANGED <<memory_health, review_history>>
    /\ FocusFrame

\* session.cancel() on a session of the service: the service has no method
\* that calls it, a holder of the FocusSession object does
cancel_session(sid) ==
    /\ HasSession(sid)
    /\ focus_mode_service' = SessionSet(sid, cancel(Sessions[sid], now))
    /\ response' = FocusAnswer("cancel", sid, "none")
    /\ UNCHANGED <<memory_health, review_history>>
    /\ FocusFrame

\* ReviewRefusal without the check of lines 248-249
ReviewRefusalUnknownOnly(sid) ==
    IF ~HasSession(sid) THEN "Session not found" ELSE "none"

\* record_memory_review, lines 244-249: the ValueError raised, or "none"
ReviewRefusal(sid) ==
    IF ~HasSession(sid) THEN "Session not found"
    ELSE IF Sessions[sid].state # "active" THEN "Session is not active"
    ELSE "none"

\* lines 252-253 on the session
ReviewedInSession(s, memory_id) ==
    IF \E i \in DOMAIN s.memories_reviewed : s.memories_reviewed[i] = memory_id
    THEN s
    ELSE [s EXCEPT !.memories_reviewed = Append(@, memory_id)]

\* record_memory_review(session_id, memory_id, difficulty)
record_memory_review(sid, memory_id, difficulty) ==
    /\ LET error == ReviewRefusal(sid)
       IN  /\ response' = FocusAnswer("record_memory_review", sid, error)
           /\ IF error = "none"
              THEN /\ focus_mode_service' =
                          SessionSet(sid, ReviewedInSession(Sessions[sid], memory_id))
                   /\ Recorded(memory_id, difficulty)
              ELSE UNCHANGED <<focus_mode_service, memory_health, review_history>>
    /\ FocusFrame

\* the difficulties the reviews of a focus session are given
FocusDifficulties == {GOOD}

\* the focus service and the clock
NextFocus ==
    \/ \E sid \in SessionIds, session_type \in SessionTypes,
          auto_select_memories \in BOOLEAN, found \in SUBSET MemoryIds :
           /\ Cardinality({s \in SessionIds : HasSession(s)}) < MaxSessions
           /\ create_session(sid, session_type, auto_select_memories, found)
    \/ \E sid \in SessionIds : start_session(sid)
    \/ \E sid \in SessionIds : pause_session(sid)
    \/ \E sid \in SessionIds : resume_session(sid)
    \/ \E sid \in SessionIds :
           Len(SessionHistory) < MaxSessionHistory /\ complete_session(sid)
    \/ \E sid \in SessionIds : cancel_session(sid)
    \/ \E sid \in SessionIds, memory_id \in MemoryIds, difficulty \in FocusDifficulties :
           /\ ReviewRefusal(sid) = "none" => Len(review_history) < MaxFocusReviews
           /\ record_memory_review(sid, memory_id, difficulty)
    \/ TickWithin(MaxFocusTime)

SpecFocus == Init /\ [][NextFocus]_vars

----------------------------------------------------------------------------
(* Properties *)

\* the part of a MemoryHealth that SM-2 schedules by
Sm2State(h) ==
    [ease_factor |-> h.ease_factor,
     interval_days |-> h.interval_days,
     repetitions |-> h.repetitions]

\* the scheduling fields of a MemoryHealth
Schedule(h) ==
    [ease_factor |-> h.ease_factor,
     interval_days |-> h.interval_days,
     repetitions |-> h.repetitions,
     last_review |-> h.last_review,
     next_review |-> h.next_review,
     importance |-> h.importance,
     access_count |-> h.access_count]

\* the difficulties of the reviews recorded for id, in the order recorded
RECURSIVE DifficultiesOf(_, _)
DifficultiesOf(id, history) ==
    IF history = <<>> THEN <<>>
    ELSE IF Head(history).memory_id = id
         THEN <<Head(history).difficulty>> \o DifficultiesOf(id, Tail(history))
         ELSE DifficultiesOf(id, Tail(history))

\* the SM-2 states that the reviews ds[i], i in left, lead to from h when
\* they run one after the other, in any order
RECURSIVE SerialOutcomes(_, _, _)
SerialOutcomes(h, ds, left) ==
    IF left = {} THEN {Sm2State(h)}
    ELSE UNION {UNION {SerialOutcomes(Reviewed(h, ds[i], 0, interval), ds, left \ {i})
                       : interval \in Sm2Interval(h, ds[i])}
                : i \in left}

C2_FirstEasyRaisesEase ==
    [][\A id \in MemoryIds :
          (~Tracked(id) /\ record_review(id, EASY))
              => /\ Tracked(id)'
                 /\ Health(id)'.repetitions = 1
                 /\ Health(id)'.interval_days = 1
                 /\ Health(id)'.ease_factor > DefaultEase]_vars

\* C2 amended: record_review(id, EASY) on an untracked id leaves the memory
\* tracked with repetitions = 1, interval_days = 1 and ease_factor equal to
\* 2.5: EASY (4) adds 0.1 - 1 * (0.08 + 0.02) = 0 to the ease factor.
C2_FirstEasyKeepsEase ==
    [][\A id \in MemoryIds :
          (~Tracked(id) /\ record_review(id, EASY))
              => /\ Tracked(id)'
                 /\ Health(id)'.repetitions = 1
                 /\ Health(id)'.interval_days = 1
                 /\ Health(id)'.ease_factor = DefaultEase]_vars

C2_Witness ==
    /\ Len(review_history) = 1
    /\ review_history[1].difficulty = EASY
    /\ Tracked(review_history[1].memory_id)
    /\ Health(review_history[1].memory_id).repetitions = 1
    /\ Health(review_history[1].memory_id).last_review = review_history[1].timestamp
    /\ Health(review_history[1].memory_id).access_count = 0

\* C3: every tracked memory has ease_factor >= 1.3, whatever initialize_memory,
\* record_review and record_access calls came before.
C3_EaseFloor ==
    \A i \in DOMAIN memory_health : memory_health[i].ease_factor >= MinEase

\* three FORGOT reviews: 2.5 - 3 * 0.54 is below 1.3, and the floor holds it
C3_Witness ==
    /\ Len(review_history) = 3
    /\ \A i \in DOMAIN review_history : review_history[i].difficulty = FORGOT
    /\ Tracked("m1")
    /\ Health("m1").ease_factor = MinEase
    /\ Health("m1").last_review = review_history[3].timestamp

\* C4: a record_review(id, GOOD) on a tracked memory never leaves
\* interval_days below what it was, so the interval_days of consecutive
\* GOOD reviews never decrease from one review to the next.
C4_GoodNeverShortens ==
    [][\A id \in MemoryIds :
          (Tracked(id) /\ record_review(id, GOOD))
              => Health(id)'.interval_days >= Health(id).interval_days]_vars

\* three GOOD reviews in a row from a fresh memory: 1, 6, round(6 * 2.22)
C4_Witness ==
    /\ Len(review_history) = 3
    /\ \A i \in DOMAIN review_history : review_history[i].difficulty = GOOD
    /\ review_history[2].previous_interval = 1
    /\ review_history[3].previous_interval = 6
    /\ Tracked("m1")
    /\ Health("m1").repetitions = 3
    /\ Health("m1").interval_days = 13

\* C5: a record_review of quality below 3 (FORGOT, HARD) on a tracked memory
\* leaves repetitions = 0 and interval_days = 1.
C5_FailedRecallResets ==
    [][\A id \in MemoryIds, difficulty \in {FORGOT, HARD} :
          (Tracked(id) /\ record_review(id, difficulty))
              => /\ Health(id)'.repetitions = 0
                 /\ Health(id)'.interval_days = 1]_vars

\* a failed review after a streak that had reached interval_days = 6
C5_Witness ==
    /\ Len(review_history) = 3
    /\ review_history[3].difficulty \in {FORGOT, HARD}
    /\ review_history[3].previous_interval = 6
    /\ Tracked("m1")
    /\ Health("m1").repetitions = 0
    /\ Health("m1").interval_days = 1
    /\ Health("m1").last_review = review_history[3].timestamp

\* C6: the strength of every tracked memory, as to_dict reports it at any
\* moment (get_memory_health, get_due_reviews) and as record_access tests
\* it, is the classification of the retention score at that moment.
C6_StrengthMatchesRetention ==
    \A i \in DOMAIN memory_health :
        to_dict(memory_health[i], now).strength = Classify(memory_health[i], now)

\* C7: a step that is neither a record_review nor a record_access of a
\* tracked memory leaves it tracked with the same ease_factor, interval_days,
\* repetitions, last_review, next_review, importance and access_count.
C7_OnlyReviewAndAccessWrite ==
    [][\A id \in MemoryIds :
          (/\ Tracked(id)
           /\ ~(\E difficulty \in ReviewDifficulty : record_review(id, difficulty))
           /\ ~record_access(id))
              => /\ Tracked(id)'
                 /\ Schedule(Health(id))' = Schedule(Health(id))]_vars

\* a step that is a record_review of some memory
IsReview == \E id \in MemoryIds, difficulty \in ReviewDifficulty :
                record_review(id, difficulty)

\* C8: a record_review step appends one entry to the review history, with
\* the memory_id, the difficulty and the interval_days the memory had before
\* the review (1 for a memory not tracked until then); the history changes
\* in no step but a record_review step.
C8_HistoryAppendOnly ==
    [][/\ \A id \in MemoryIds, difficulty \in ReviewDifficulty :
             record_review(id, difficulty)
                 => /\ Len(review_history') = Len(review_history) + 1
                    /\ SubSeq(review_history', 1, Len(review_history)) = review_history
                    /\ LET e == review_history'[Len(review_history')]
                       IN  /\ e.memory_id = id
                           /\ e.difficulty = difficulty
                           /\ e.previous_interval =
                                  IF Tracked(id) THEN Health(id).interval_days ELSE 1
       /\ review_history' # review_history => IsReview]_vars

\* three entries, the last one holding the interval the second review set
C8_Witness ==
    /\ Len(review_history) = 3
    /\ review_history[3].previous_interval = 6
    /\ review_history[2].previous_interval = 1
    /\ review_history[1].difficulty # review_history[2].difficulty

\* the ids of a returned list
IdsOf(list) == {list[i].memory_id : i \in DOMAIN list}

\* C9: when the vector store holds every tracked memory and limit is at
\* least the number of tracked memories, get_due_reviews(limit,
\* include_overdue=True) returns the tracked memories with next_review <= now,
\* each once, and no other.
C9_DueExactly ==
    \A limit \in Limits, found \in Stores :
        (TrackedIds \subseteq found /\ limit >= Len(memory_health))
            => LET due == DueReviews(limit, TRUE, found)
               IN  /\ IdsOf(due) = {id \in TrackedIds : Health(id).next_review <= now}
                   /\ Len(due) = Cardinality(IdsOf(due))

\* two tracked memories, one due at this very moment and one not yet
C9_Witness ==
    /\ Len(memory_health) = 2
    /\ memory_health[1].next_review > now
    /\ memory_health[2].next_review = now
    /\ IdsOf(DueReviews(DefaultLimit, TRUE, MemoryIds)) = {memory_health[2].memory_id}

\* C10: an accepted SearchQuery has 0 < limit <= 100 and rerank_top_k >= limit,
\* and the candidate pool of a search with reranking is no smaller than limit.
C10_AcceptedQueryPool ==
    query.accepted
        => /\ query.request.limit > 0
           /\ query.request.limit <= 100
           /\ query.request.rerank_top_k >= query.request.limit
           /\ query.request.rerank => query.candidates_limit >= query.request.limit

\* C11: when the cross-encoder raised while reranking, search() returns
\* success, with as many results as limit (all candidates when there are
\* fewer), and they are the first candidates of the pre-rerank list, in its
\* order and with its scores.
C11_RerankFailureDegrades ==
    (call.pc = "done" /\ call.reranker = "raised")
        => /\ call.response.success
           /\ ~call.response.raised
           /\ Len(call.response.results) = Min(call.query.limit, Len(call.candidates))
           /\ \A i \in DOMAIN call.response.results :
                  call.response.results[i] = call.candidates[i]
           /\ call.response.total = Len(call.response.results)

\* the cross-encoder raised on two candidates that temporal decay had
\* reordered, and one result was asked for
C11_Witness ==
    /\ call.pc = "done"
    /\ call.reranker = "raised"
    /\ call.query.limit = 1
    /\ Len(call.candidates) = 2
    /\ call.candidates[1].id = call.raw_results[2].id
    /\ Len(call.response.results) = 1

\* C12: the vector-store query of a search() follows the mode: dense mode
\* sends the dense vector alone, sparse mode the sparse vector alone (the
\* dense vector takes no part), hybrid mode both, fused by rank.
C12_RetrievalFollowsMode ==
    (call.pc = "done" /\ call.response.success)
        => /\ call.query.mode = "dense"
                 => call.request.dense /\ ~call.request.sparse
           /\ call.query.mode = "sparse"
                 => call.request.sparse /\ ~call.request.dense
           /\ call.query.mode = "hybrid"
                 => call.request.dense /\ call.request.sparse /\ call.request.fusion

\* the ids of a list of results
ResultIds(results) == {results[i].id : i \in DOMAIN results}

\* C13: with temporal_boost the list handed on holds exactly the ids the
\* store returned, each once, in non-increasing order of score; it is not
\* yet cut to limit, and the results are its first `limit` items when no
\* reranking follows.
C13_DecayOnlyReorders ==
    (call.pc = "done" /\ call.response.success /\ call.query.temporal_boost)
        => /\ ResultIds(call.candidates) = ResultIds(call.raw_results)
           /\ Len(call.candidates) = Len(call.raw_results)
           /\ \A i, j \in DOMAIN call.candidates :
                  i < j => call.candidates[i].score >= call.candidates[j].score
           /\ call.reranker = "unused"
                 => call.response.results = Take(call.candidates, call.query.limit)

\* two points came back, the better one older by 300 days; decay put the
\* other one first, and the cut to limit = 1 kept it
C13_Witness ==
    /\ call.pc = "done"
    /\ call.response.success
    /\ call.query.temporal_boost
    /\ call.reranker = "unused"
    /\ call.query.limit = 1
    /\ Len(call.raw_results) = 2
    /\ call.raw_results[1].score > call.raw_results[2].score
    /\ call.candidates[1].id = call.raw_results[2].id
    /\ ~call.raw_results[2].dated
    /\ ResultIds(call.response.results) = {call.raw_results[2].id}

\* C14: generate_sparse_vector is a function of its text alone: the vector
\* stored for a text at ingestion is the one a call on the same text returns
\* now, in whatever run of the service.
C14_SparseVectorOfTextAlone ==
    indexed.vector = generate_sparse_vector(indexed.text)

\* embed_batch answered, and these are the positions of its texts with content
BatchAnswered == response.op = "embed_batch"

\* the primary backend failed for some text of the batch
PrimaryFailed ==
    LET valid == {i \in DOMAIN response.texts : HasContent(response.texts[i])}
    IN  /\ valid # {}
        /\ IF embedding_service.use_gemini
           THEN /\ ~response.backends.batch_ok
                /\ response.backends.failing \cap (1..Cardinality(valid)) # {}
           ELSE ~response.backends.local_ok

\* one vector per text, at its position, the zero vector for texts without
\* content
OneVectorPerText ==
    /\ ~response.result.raised
    /\ Len(response.result.vectors) = Len(response.texts)
    /\ \A i \in DOMAIN response.texts :
           LET v == response.result.vectors[i]
           IN  /\ v.dimension = EmbeddingDimension
               /\ IF HasContent(response.texts[i])
                  THEN v.backend # "none" /\ v.text = response.texts[i]
                  ELSE v = ZeroVector

\* the texts with content got their vectors from the local model
FromSecondary ==
    \A i \in DOMAIN response.texts :
        HasContent(response.texts[i])
            => response.result.vectors[i].backend = "local"

\* C15, as stated: embed_batch returns one vector per text at its position,
\* zero vectors for empty and whitespace-only texts, and when the primary
\* backend fails for some text it still returns, with vectors of the
\* secondary backend, instead of raising.
C15_BatchNeverRaises ==
    BatchAnswered => OneVectorPerText /\ (PrimaryFailed => FromSecondary)

\* C15, amended: the above holds when no backend fails, and when Gemini is
\* the primary backend and the local model answers; when the local model is
\* the primary backend and fails, or fails as the secondary, the call raises.
C15_BatchFallsBackToLocal ==
    BatchAnswered =>
        IF PrimaryFailed
        THEN IF embedding_service.use_gemini /\ response.backends.local_ok
             THEN OneVectorPerText /\ FromSecondary
             ELSE response.result.raised
        ELSE OneVectorPerText

C15_Witness ==
    /\ BatchAnswered
    /\ embedding_service.use_gemini
    /\ PrimaryFailed
    /\ response.texts = <<" ", "notes">>
    /\ response.result.vectors = <<ZeroVector, Embedding("local", "notes")>>

\* find_similar has returned a response for a memory it found with content
SimilarAnswered ==
    /\ response.op = "find_similar" /\ response.pc = "done"
    /\ response.found = "content"
    /\ ~response.result.raised

\* C16: for an existing item with content, find_similar searches with
\* reranking disabled and returns at most limit results, none of them the
\* source item, with total the number of results returned.
C16_SimilarExcludesSource ==
    /\ response.op = "find_similar" /\ response.pc = "searching"
           => ~call.query.rerank /\ call.pc # "reranking"
    /\ SimilarAnswered =>
           /\ ~call.query.rerank /\ call.reranker = "unused"
           /\ call.query.limit = response.limit + 1
           /\ Len(response.result.results) <= response.limit
           /\ \A i \in DOMAIN response.result.results :
                  response.result.results[i].id # response.memory_id
           /\ response.result.total = Len(response.result.results)

\* the reranker is loaded, the store ranks the source first and one other,
\* and the other comes back alone
C16_Witness ==
    /\ SimilarAnswered
    /\ search_service.reranker
    /\ response.limit = 1
    /\ Len(call.response.results) = 2
    /\ call.response.results[1].id = response.memory_id
    /\ Len(response.result.results) = 1

\* C17: find_similar on an id the store does not hold raises nothing and
\* answers success = false, no results, total 0 and a message, after the
\* lookup alone: no embedding call and no vector search.
C17_NotFoundIsAnswered ==
    [][\A memory_id \in SimilarIds, limit \in SimilarLimits :
           FindSimilarBegin(memory_id, limit, "absent") =>
               /\ call' = call
               /\ response'.pc = "done"
               /\ response'.io = {"get_memory"}
               /\ ~response'.result.raised /\ ~response'.result.success
               /\ response'.result.results = <<>>
               /\ response'.result.total = 0
               /\ response'.result.message # ""]_vars

C17_Witness ==
    /\ response.op = "find_similar" /\ response.found = "absent"
    /\ response.result.message = "Memory not found"
    /\ call.pc = "done" /\ Len(call.response.results) = 2

\* a route answered a request with a malformed difficulty rating, an
\* out-of-range limit or offset, or an empty query string
InvalidInput ==
    CASE response.op \in {"POST /search", "GET /search/quick"} ->
             \/ response.request.query_length = 0
             \/ response.request.limit < 1 \/ response.request.limit > 100
             \/ response.request.offset < 0
      [] response.op = "POST /health/review" ->
             response.request.difficulty \notin ReviewDifficulty
      [] response.op = "GET /health/due-reviews" ->
             response.request.limit < 1 \/ response.request.limit > 50
      [] OTHER -> FALSE

\* C18: a request with a malformed difficulty rating, an out-of-range limit
\* or offset, or an empty query string is answered with a client error (a
\* 4xx status, never a 5xx), on the quick-search endpoint too, and before
\* any embedding, vector-store or health-state operation runs.
C18_InvalidInputIsClientError ==
    InvalidInput =>
        /\ response.status >= 400 /\ response.status < 500
        /\ response.io = {}

\* a search() call has begun and has not returned or raised
SearchPending == call.pc \in {"embedding", "embedded", "reranking", "reranked"}

\* C19: every search() call eventually returns a response or raises, even
\* if the embedding provider or the reranker never answers: no call stays
\* pending forever.
C19_SearchEventuallyReturns == SearchPending ~> call.pc = "done"

\* C20: a record_review of quality 3 or more (GOOD, EASY) on a tracked
\* memory sets interval_days to 1 after no repetition, to 6 after one, and
\* otherwise to the product of the interval and the ease_factor held before
\* the review, rounded to a nearest whole number; it adds exactly 1 to
\* repetitions and sets last_review = now, next_review = now + interval_days.
C20_SuccessfulRecallSchedule ==
    [][\A id \in MemoryIds, difficulty \in {GOOD, EASY} :
          (Tracked(id) /\ record_review(id, difficulty))
              => /\ Health(id).repetitions = 0 => Health(id)'.interval_days = 1
                 /\ Health(id).repetitions = 1 => Health(id)'.interval_days = 6
                 /\ Health(id).repetitions >= 2 =>
                        /\ 100 * Health(id)'.interval_days
                               >= Health(id).interval_days * Health(id).ease_factor - 50
                        /\ 100 * Health(id)'.interval_days
                               <= Health(id).interval_days * Health(id).ease_factor + 50
                 /\ Health(id)'.repetitions = Health(id).repetitions + 1
                 /\ Health(id)'.last_review = now
                 /\ Health(id)'.next_review
                        = now + Health(id)'.interval_days * TicksPerDay]_vars

\* GOOD, EASY, GOOD from a fresh memory: 1, 6, round(6 * 2.36) = 14, where
\* the ease_factor after the third review is 2.22
C20_Witness ==
    /\ Len(review_history) = 3
    /\ review_history[1].difficulty = GOOD
    /\ review_history[2].difficulty = EASY
    /\ review_history[3].difficulty = GOOD
    /\ review_history[3].previous_interval = 6
    /\ Tracked("m1")
    /\ Health("m1").repetitions = 3
    /\ Health("m1").interval_days = 14
    /\ Health("m1").ease_factor = 222
    /\ Health("m1").next_review = Health("m1").last_review + 14 * TicksPerDay

\* C21: record_access of a tracked memory adds exactly 1 to access_count;
\* if the stored strength is weak or fading it sets interval_days to
\* max(1, interval_days - 1) and next_review to now + the new interval_days,
\* otherwise it leaves both; ease_factor, repetitions, last_review and the
\* review log are unchanged in every case.
C21_AccessNudgesWeak ==
    [][\A id \in MemoryIds :
          (Tracked(id) /\ record_access(id))
              => /\ Health(id)'.access_count = Health(id).access_count + 1
                 /\ IF Health(id).strength \in {"weak", "fading"}
                    THEN /\ Health(id)'.interval_days
                                = (IF Health(id).interval_days > 1
                                   THEN Health(id).interval_days - 1 ELSE 1)
                         /\ Health(id)'.next_review
                                = now + Health(id)'.interval_days * TicksPerDay
                    ELSE /\ Health(id)'.interval_days = Health(id).interval_days
                         /\ Health(id)'.next_review = Health(id).next_review
                 /\ Health(id)'.ease_factor = Health(id).ease_factor
                 /\ Health(id)'.repetitions = Health(id).repetitions
                 /\ Health(id)'.last_review = Health(id).last_review
                 /\ review_history' = review_history]_vars

\* two GOOD reviews on day 0 (interval 6), four days, a dashboard call that
\* finds the memory weak, and an access that takes the interval to 5
C21_Witness ==
    /\ Tracked("m1")
    /\ Health("m1").access_count = 1
    /\ Health("m1").strength = "weak"
    /\ Health("m1").repetitions = 2
    /\ Health("m1").interval_days = 5
    /\ Health("m1").next_review = now + 5 * TicksPerDay
    /\ Health("m1").last_review = 0

\* the position of a memory in the dict: the order in which the memories
\* became tracked
TrackedBefore(a, b) == IndexOf(a) < IndexOf(b)

\* the priority score of a returned entry is, times 700000,
\* 0.4 * importance + 0.4 * min(overdue_days / 7, 1) + 0.2 * (1 - retention)
PriorityAsStated(e) ==
    e.priority_score =
        2800 * e.health.importance
        + 40000 * (IF e.days_overdue < 7 THEN e.days_overdue ELSE 7)
        + 14 * (10000 - e.health.retention_score)

\* a returned list in non-increasing order of the stated priority, entries
\* of equal priority in the order in which they became tracked, at most
\* limit entries
QueueOrdered(due, limit) ==
    /\ Len(due) <= limit
    /\ \A i \in DOMAIN due : PriorityAsStated(due[i])
    /\ \A i, j \in DOMAIN due :
           i < j => /\ due[i].priority_score >= due[j].priority_score
                    /\ due[i].priority_score = due[j].priority_score
                           => TrackedBefore(due[i].memory_id, due[j].memory_id)

\* entry b is of the importance and retention of entry a and more overdue
MoreOverdueTwin(a, b) ==
    /\ a.health.importance = b.health.importance
    /\ a.health.retention_score = b.health.retention_score
    /\ b.health.next_review < a.health.next_review

\* C22, as stated: get_due_reviews returns its items in non-increasing
\* order of priority, items of equal priority in the order in which they
\* became tracked, at most limit of them; and of two due items of equal
\* importance and retention the more overdue one is never ranked below the
\* other.
C22_MoreOverdueNeverBelow ==
    \A limit \in Limits, found \in Stores :
        LET due == DueReviews(limit, TRUE, found)
        IN  /\ QueueOrdered(due, limit)
            /\ \A i, j \in DOMAIN due :
                   i < j => ~MoreOverdueTwin(due[i], due[j])

\* C22, amended: the order is as stated; of two due items of equal
\* importance and retention the more overdue one never has the lower
\* priority, and it is ranked below the other only when the two priorities
\* are equal and it became tracked after the other.
C22_QueueByPriorityThenTracking ==
    \A limit \in Limits, found \in Stores :
        LET due == DueReviews(limit, TRUE, found)
        IN  /\ QueueOrdered(due, limit)
            /\ \A i, j \in DOMAIN due :
                   MoreOverdueTwin(due[i], due[j])
                       => /\ due[j].priority_score >= due[i].priority_score
                          /\ i < j =>
                                /\ due[j].priority_score = due[i].priority_score
                                /\ TrackedBefore(due[i].memory_id, due[j].memory_id)

\* both memories seven days overdue or more, the one tracked second the
\* more overdue: equal priorities, and the queue keeps the tracking order
C22_Witness ==
    LET due == DueReviews(DefaultLimit, TRUE, MemoryIds)
    IN  /\ Len(due) = 2
        /\ MoreOverdueTwin(due[1], due[2])
        /\ due[1].priority_score = due[2].priority_score
        /\ due[1].days_overdue = 7 /\ due[2].days_overdue = 8

\* a returned entry reports the strength weak or fading
ReportsWeak(e) == e.health.strength \in {"weak", "fading"}

\* C23: suggest_study_session(duration_minutes, focus_weak=True) returns at
\* most duration_minutes // 2 items, each of them due now, every item that
\* reports the strength weak or fading before every item of another
\* strength, and inside each of the two groups the order of the due queue.
C23_SessionWeakFirst ==
    \A duration_minutes \in Durations, found \in Stores :
        LET session == StudySession(duration_minutes, TRUE, found)
        IN  /\ 2 * Len(session) <= duration_minutes
            /\ \A i \in DOMAIN session :
                   /\ Tracked(session[i].memory_id)
                   /\ Health(session[i].memory_id).next_review <= now
            /\ \A i, j \in DOMAIN session :
                   i < j =>
                       /\ ReportsWeak(session[j]) => ReportsWeak(session[i])
                       /\ ReportsWeak(session[i]) = ReportsWeak(session[j]) =>
                              /\ session[i].priority_score >= session[j].priority_score
                              /\ session[i].priority_score = session[j].priority_score
                                     => TrackedBefore(session[i].memory_id,
                                                      session[j].memory_id)

\* a weak memory of lower priority comes before a fresh one
C23_Witness ==
    LET session == StudySession(DefaultDuration, TRUE, MemoryIds)
    IN  /\ Len(session) = 2
        /\ ReportsWeak(session[1]) /\ ~ReportsWeak(session[2])
        /\ session[1].priority_score < session[2].priority_score

\* what get_memory_health_dashboard returns in the current state
DashboardNow == Dashboard(RefreshAll(memory_health, now), now)

\* the tracked memories whose retention classifies as s now
Bucket(s) == {i \in DOMAIN memory_health : Classify(memory_health[i], now) = s}

\* 100*fresh + 80*strong + 60*moderate + 40*weak + 20*fading
WeightedBuckets ==
    100 * Cardinality(Bucket("fresh")) + 80 * Cardinality(Bucket("strong"))
    + 60 * Cardinality(Bucket("moderate")) + 40 * Cardinality(Bucket("weak"))
    + 20 * Cardinality(Bucket("fading"))

\* C24: the dashboard counts every tracked memory in the bucket of its
\* strength as classified at the call, the buckets sum to the number of
\* tracked memories, and health_score is the weighted sum of the buckets
\* divided by that number and rounded: within 20..100 when a memory is
\* tracked, 0 when none is.
C24_HealthScoreIsWeightedAverage ==
    LET dashboard == DashboardNow
        total == Len(memory_health)
        counted == dashboard.strength_distribution
    IN  /\ \A s \in MemoryStrength : counted[s] = Cardinality(Bucket(s))
        /\ counted["fresh"] + counted["strong"] + counted["moderate"]
               + counted["weak"] + counted["fading"] = total
        /\ dashboard.total_memories = total
        /\ IF total = 0 THEN dashboard.health_score = 0
           ELSE /\ 2 * (dashboard.health_score * total - WeightedBuckets) <= total
                /\ 2 * (WeightedBuckets - dashboard.health_score * total) <= total
                /\ dashboard.health_score >= 20
                /\ dashboard.health_score <= 100

\* one memory fresh and one weak by its retention while its stored strength
\* still says fresh: the score is 70
C24_Witness ==
    /\ Len(memory_health) = 2
    /\ \A i \in DOMAIN memory_health : memory_health[i].strength = "fresh"
    /\ DashboardNow.strength_distribution["fresh"] = 1
    /\ DashboardNow.strength_distribution["weak"] = 1
    /\ DashboardNow.health_score = 70

\* C25: no review raises ease_factor: after record_review of any
\* difficulty the ease_factor is at most what it was (2.5 for a memory the
\* review itself starts tracking), so every tracked memory keeps its
\* ease_factor within [1.3, 2.5].
C25_EaseNeverRises ==
    [][/\ \A id \in MemoryIds, difficulty \in ReviewDifficulty :
              (review_history' # review_history /\ record_review(id, difficulty))
                  => Health(id)'.ease_factor <= ReviewTarget(id).ease_factor
       /\ \A i \in DOMAIN memory_health' :
              /\ memory_health'[i].ease_factor >= MinEase
              /\ memory_health'[i].ease_factor <= DefaultEase]_vars

\* GOOD takes the ease_factor to 2.36 and an EASY review leaves it there
C25_Witness ==
    /\ Len(review_history) = 2
    /\ review_history[1].difficulty = GOOD
    /\ review_history[2].difficulty = EASY
    /\ Tracked("m1")
    /\ Health("m1").repetitions = 2
    /\ Health("m1").ease_factor = 236

\* C26: get_due_reviews returns the same items in the same order whether
\* include_overdue is true or false; an item overdue by more than a day is
\* returned with include_overdue = False too.
C26_IncludeOverdueChangesNothing ==
    \A limit \in Limits, found \in Stores :
        /\ DueReviews(limit, FALSE, found) = DueReviews(limit, TRUE, found)
        /\ \A id \in TrackedIds \cap found :
               (Health(id).next_review < now - TicksPerDay
                    /\ limit >= Len(memory_health))
                   => id \in IdsOf(DueReviews(limit, FALSE, found))

\* a memory two days past its next_review is returned without the flag
C26_Witness ==
    /\ Tracked("m1")
    /\ Health("m1").next_review = now - 2 * TicksPerDay
    /\ "m1" \in IdsOf(DueReviews(DefaultLimit, FALSE, MemoryIds))

\* C27, as stated: a record_access never takes a memory out of the due
\* queue: a memory due before the record_access is due after it, whatever
\* its strength.
C27_AccessKeepsDue ==
    [][\A id \in MemoryIds :
          (Tracked(id) /\ IsDue(Health(id), now) /\ record_access(id))
              => IsDue(Health(id)', now')]_vars

\* C27, amended: a memory due before the record_access is due after it
\* exactly when its stored strength is neither weak nor fading; a weak or
\* fading memory gets next_review = now + interval_days, at least a day
\* ahead, and leaves the due queue.
C27_AccessPostponesWeak ==
    [][\A id \in MemoryIds :
          (Tracked(id) /\ IsDue(Health(id), now) /\ record_access(id))
              => IF Health(id).strength \in {"weak", "fading"}
                 THEN /\ ~IsDue(Health(id)', now')
                      /\ Health(id)'.next_review >= now' + TicksPerDay
                 ELSE IsDue(Health(id)', now')]_vars

\* a memory due since day 1 and found weak is accessed on day 1: it is due
\* again on day 2
C27_Witness ==
    /\ Tracked("m1")
    /\ Health("m1").strength = "weak"
    /\ Health("m1").access_count = 1
    /\ Health("m1").last_review = 0
    /\ Health("m1").repetitions = 0
    /\ now = 1
    /\ Health("m1").next_review = 2

\* a session that has reached COMPLETED or CANCELLED
Terminal(sid) ==
    HasSession(sid) /\ Sessions[sid].state \in {"completed", "cancelled"}

\* the records of the session history that are session sid's
HistoryRecords(sid) ==
    Cardinality({i \in DOMAIN SessionHistory : SessionHistory[i].session_id = sid})

\* a step that is one of the four service calls on session sid
SessionCall(sid) ==
    start_session(sid) \/ pause_session(sid) \/ resume_session(sid)
        \/ complete_session(sid)

\* C28: a focus session in state COMPLETED or CANCELLED has exactly one
\* record in the session history, and a start_session, pause_session,
\* resume_session or complete_session on it leaves its state as it is.
C28_TerminalSessionsStay ==
    [][\A sid \in SessionIds :
          Terminal(sid) =>
              /\ HistoryRecords(sid) = 1
              /\ SessionCall(sid) =>
                     focus_mode_service'.sessions[sid].state = Sessions[sid].state]_vars

\* how often memory_id stands in a list of reviewed memories
Occurrences(reviewed, memory_id) ==
    Cardinality({i \in DOMAIN reviewed : reviewed[i] = memory_id})

\* C29: a record_memory_review on an existing session in state ACTIVE
\* answers without an error and leaves the memory_id once, and no id more
\* than once, in the session's memories_reviewed; on an unknown session or
\* one in any other state it raises an error and leaves the focus service,
\* every MemoryHealth and the review log as they were.
C29_ReviewOnlyInActiveSession ==
    [][\A sid \in SessionIds, memory_id \in MemoryIds, difficulty \in ReviewDifficulty :
          (/\ response'.op = "record_memory_review"
           /\ response'.session_id = sid
           /\ record_memory_review(sid, memory_id, difficulty)) =>
              IF HasSession(sid) /\ Sessions[sid].state = "active"
              THEN /\ response'.error = "none"
                   /\ Occurrences(focus_mode_service'.sessions[sid].memories_reviewed,
                                  memory_id) = 1
                   /\ \A other \in MemoryIds :
                          Occurrences(focus_mode_service'.sessions[sid].memories_reviewed,
                                      other) <= 1
                   /\ Len(review_history') = Len(review_history) + 1
              ELSE /\ response'.error # "none"
                   /\ focus_mode_service' = focus_mode_service
                   /\ memory_health' = memory_health
                   /\ review_history' = review_history]_vars

\* a session has answered a second review of m1 and lists m1 once
C29_Witness ==
    /\ response = FocusAnswer("record_memory_review", "s1", "none")
    /\ HasSession("s1")
    /\ Sessions["s1"].state = "active"
    /\ Sessions["s1"].memories_reviewed = <<"m1">>
    /\ Len(review_history) = 2
    /\ \A i \in DOMAIN review_history : review_history[i].memory_id = "m1"

\* C30: what GET /health/score answers as health_score, due_today, overdue
\* and streak are the health_score, reviews_due_today, overdue_reviews and
\* review_streak of the dashboard get_memory_health_dashboard returns in the
\* state the route is called in.
C30_ScoreReportsDashboard ==
    [][get_memory_health_score =>
          /\ response'.body.health_score = DashboardNow.health_score
          /\ response'.body.due_today = DashboardNow.reviews_due_today
          /\ response'.body.overdue = DashboardNow.overdue_reviews
          /\ response'.body.streak = DashboardNow.review_streak]_vars

====
